---------------------------- MODULE Spec2Model ----------------------------
(***************************************************************************)
(* A model of the agent-c runtime.                                         *)
(*                                                                         *)
(*   - the ReACT loop of src/src/agent.c with the tool registry of         *)
(*     src/src/tool.c                                    (SpecAgent)       *)
(*   - the HTTP connection pool of                                         *)
(*     src/libs/ac_hosted/src/http_pool/http_pool.c      (SpecPool)        *)
(*   - the MCP JSON-RPC call over the Streamable-HTTP and SSE transports   *)
(*     of src/libs/ac_core/src/mcp                       (SpecMcp)         *)
(*   - the session / agent lifecycle of src/libs/ac_core/src/session.c     *)
(*     and src/libs/ac_core/src/agent.c                  (SpecSession)     *)
(*   - the SSE transport with a full response queue    (SpecSseFull)     *)
(*   - registration in the tool registry of src/src/tool.c                 *)
(*                                                       (SpecRegistry)    *)
(*   - the provider table of src/libs/ac_core/src/llm/llm.c                *)
(*                                                       (SpecProviders)   *)
(*   - the arena of src/libs/ac_core/src/arena.c         (SpecArena)       *)
(*   - ac_mcp_call_tool of src/libs/ac_core/src/mcp/mcp.c                  *)
(*                                                       (SpecCallTool)    *)
(*   - the locking of the SSE transport's two threads in                   *)
(*     src/libs/ac_core/src/mcp/mcp_sse.c                (SpecSseSync)     *)
(*   - the pool's acquire and release with releases of clients that are    *)
(*     not held                                          (SpecPoolRelease) *)
(*   - the protocol sequence of one MCP client, mcp.c    (SpecProto)       *)
(*   - one ac_core agent across its runs,                                  *)
(*     src/libs/ac_core/src/agent.c                      (SpecCoreAgent)   *)
(*   - the Anthropic driver's chat and its pooled client,                  *)
(*     src/libs/ac_core/src/llm/providers/anthropic.c    (SpecChat)        *)
(*   - the SSE reader thread from start to exit, mcp_sse.c                 *)
(*                                       (SpecReader, SpecReaderFair)      *)
(*                                                                         *)
(* C strings are strings, the null pointer is NULL, a linked list is a     *)
(* sequence.  Memory allocation is assumed to succeed, except that the     *)
(* pool cannot create a client when every client address is in use and     *)
(* that the JSON objects of the Anthropic chat request may fail to build.  *)
(***************************************************************************)
EXTENDS Integers, Sequences, FiniteSets, TLC

VARIABLES
    \* ---- agent run (src/src/agent.c) ----
    agent,          \* struct agentc_agent, as agentc_agent_create leaves it
    registry,       \* struct agentc_tool_registry: the registered tool names, in order
    messages,       \* the message list the run works on (*messages)
    result,         \* agentc_run_result_t
    pc,             \* where the run is in agentc_agent_run / run_react_loop
    iter,           \* the for-loop counter of run_react_loop
    resp,           \* agentc_chat_response_t of the iteration, NoResponse once freed
    results,        \* the agentc_tool_result_t list of the iteration, empty once freed
    stream_ctx,     \* agent_stream_ctx_t of the latest streaming request
    \* ---- observation of the run (not program state) ----
    req_messages,   \* the message list as it was when the latest request was issued
    llm_calls,      \* number of agentc_llm_chat / agentc_llm_chat_stream calls of the run
    tool_execs,     \* number of agentc_tool_execute calls of the run
    tool_rounds,    \* number of responses of the run that requested tools
    handled,        \* per call of the execute_all whose results are held: what its handler did
    on_start_ret,   \* what hooks.on_start returned
    entry,          \* the API function that started the run, NULL before the run
    streamed_calls, \* the tool calls the latest streamed response carried
    content_ret,    \* the latest non-zero return of hooks.on_content, 0 if none yet
    \* ---- session and agent lifecycle (src/libs/ac_core/src/session.c, agent.c) ----
    session,        \* struct ac_session: its state and agents[0..agent_count-1]
    heap,           \* per address: "unused", "live" (an agent with its priv and arena) or "freed"
    handles,        \* the ac_agent_t pointers the caller got from ac_agent_create and may still use
    destroy_log,    \* the ac_agent_destroy calls so far, in order
    stale_access,   \* addresses the runtime read, wrote or freed while they were not live
    crashed,        \* the process was ended by an access to freed memory
    \* ---- MCP client and transports (src/libs/ac_core/src/mcp) ----
    mcp_client,     \* ac_mcp_client_t: the transport in use, request_id, connected
    sse,            \* mcp_sse_transport_t: sse_running, sse_connected, responses[0..response_count-1]
    mcp_pc,         \* "idle", or "waiting": sse_request is in its polling loop
    mcp_elapsed,    \* polls of that loop so far (elapsed / poll_interval)
    mcp_result,     \* what the latest mcp_rpc_call returned and which response it used
    sse_events,     \* number of message events the reader thread has received
    sse_dropped,    \* ids of the responses sse_on_event dropped since the latest request
    mcp_sent,       \* the JSON-RPC messages the client has built and sent, in order
    \* ---- HTTP connection pool (src/libs/ac_hosted/src/http_pool/http_pool.c) ----
    s_pool,         \* http_pool_t s_pool without its mutex and condition variable
    mutex,          \* s_pool.mutex and s_pool.available: valid (initialised, not destroyed), owner
    th,             \* per thread: where it is in a pool call, the client its caller holds,
                    \* what ended its latest wait ("signal", "broadcast", "timeout")
    clients,        \* per client address: "unused", "live" or "destroyed"
    now,            \* the clock get_current_time_ms reads
    pool_calls,     \* number of pool API calls started so far
    pool_faults,    \* what has gone wrong so far: use of destroyed mutex, double destroy
    init_ret,       \* the latest ac_http_pool_init: what it returned, whether it found
                    \* the pool initialized
    \* ---- the small libraries: tool registry (src/src/tool.c) ----
    tool_registry,  \* agentc_tool_registry_t: tools (the list, in order) and count
    register_ret,   \* what the latest agentc_tool_register returned
    register_tool,  \* the tool argument of the latest agentc_tool_register
    \* ---- the LLM provider table (src/libs/ac_core/src/llm/llm.c) ----
    s_providers,              \* s_providers[0 .. s_provider_count - 1], in order
    s_providers_initialized,  \* whether the built-in providers were registered
    provider_call,  \* the latest call on the table: its arguments and what it returned
    \* ---- one arena (src/libs/ac_core/src/arena.c) ----
    s_arena,        \* struct arena_: capacity and count
    arena_log,      \* the regions handed out since creation or the last reset, the
                    \* latest arena_alloc (size, count before, offset returned), the calls made
    \* ---- one ac_mcp_call_tool (src/libs/ac_core/src/mcp/mcp.c) ----
    tool_call,      \* the outcome of the tools/call request, then also what
                    \* ac_mcp_call_tool returned and stored in *result_out
    \* ---- the SSE transport's two threads (src/libs/ac_core/src/mcp/mcp_sse.c) ----
    sse_sync,       \* mcp_sse_transport_t fields, the owner of its mutex, and where the
                    \* reader thread and the requesting thread are
    sse_accesses,   \* the reads and writes of the transport's shared fields so far:
                    \* by which thread, of which field, with the mutex held or not
    \* ---- one MCP client's protocol sequence (src/libs/ac_core/src/mcp/mcp.c) ----
    mcp_proto,      \* transport->connected, the methods sent so far, the latest call
    \* ---- the Anthropic driver's chat (src/libs/ac_core/src/llm/providers/anthropic.c) ----
    chat_call,      \* the pool's active count, the client the call holds, its position
    \* ---- the SSE reader thread's life (src/libs/ac_core/src/mcp/mcp_sse.c) ----
    sse_reader,     \* sse_running, sse_connected, where the reader thread is, the
                    \* upstream connection, the queue, the request that is waiting
    \* ---- one ac_core agent across its runs (src/libs/ac_core/src/agent.c) ----
    core_agent      \* agent_priv_t: instructions, messages; the runs made, the latest
                    \* run's return

agent_vars == <<agent, registry, messages, result, pc, iter, resp, results, stream_ctx,
                req_messages, llm_calls, tool_execs, tool_rounds, handled,
                on_start_ret, content_ret, entry, streamed_calls>>

session_vars == <<session, heap, handles, destroy_log, stale_access, crashed>>

mcp_vars == <<mcp_client, sse, mcp_pc, mcp_elapsed, mcp_result, sse_events, sse_dropped,
              mcp_sent>>

pool_vars == <<s_pool, mutex, th, clients, now, pool_calls, pool_faults, init_ret>>

lib_vars == <<tool_registry, register_ret, register_tool,
              s_providers, s_providers_initialized, provider_call, s_arena, arena_log,
              tool_call, sse_sync, sse_accesses, mcp_proto, chat_call, sse_reader, core_agent>>

\* the variables of the four models that come last
late_vars == <<mcp_proto, chat_call, sse_reader, core_agent>>

vars == <<agent_vars, session_vars, mcp_vars, pool_vars, lib_vars>>

NULL == "NULL"

(***************************************************************************)
(* Bounds of the model.                                                    *)
(***************************************************************************)
MaxIterations == 2      \* largest max_iterations a configuration asks for
MaxCalls      == 2      \* most tool calls in one response
MaxToolCalls  == 2      \* most tool calls the LLM requests in one run
MaxToolRounds == 2      \* most tool-requesting responses the LLM gives in one run
MaxDeltas     == 2      \* most content chunks of one streamed response
MaxAgents     == 3      \* most ac_agent_create calls on the session, and heap addresses
MaxRequests   == 3      \* most requests of one MCP client, and the largest response id
MaxEvents     == 3      \* most message events the SSE reader thread receives
MaxPolls      == 2      \* timeout_ms / poll_interval of the SSE transport
MaxNotifications == 1   \* most notifications one MCP client sends
StaleResponses == 15    \* uncollected responses in the SSE queue at the start of SpecSseFull
NThreads      == 2      \* threads that call the pool
MaxClients    == 2      \* addresses an HTTP client can be allocated at
MaxPoolCalls  == 5      \* most pool API calls in one behaviour
MaxTicks      == 2      \* most clock ticks in one behaviour
PriorProviders == 30    \* providers already in the table at the start of SpecProviders
SizeBits      == 4      \* width of size_t in the arena model, in bits
MaxAllocs     == 3      \* most arena_alloc and arena_reset calls on the arena
MaxContentItems == 3    \* most items in the content array of a tools/call result
MaxProtoCalls == 5      \* most calls on the MCP client of SpecProto
MaxRuns == 3            \* most runs of the one ac_core agent
MaxChatCalls == 6       \* most calls of the Anthropic driver's chat
MaxStreamChunks == 3    \* most chunks the SSE reader's stream requests receive
MaxStreamEnds == 2      \* most times the upstream connection of the SSE reader ends
MaxReaderRequests == 2  \* most requests sent while the SSE reader is watched

AGENTC_AGENT_DEFAULT_MAX_ITERATIONS == 10

(***************************************************************************)
(* Values.                                                                 *)
(***************************************************************************)
AGENTC_OK == "AGENTC_OK"
AGENTC_ERR_INVALID_ARG == "AGENTC_ERR_INVALID_ARG"
AGENTC_ERR_HTTP == "AGENTC_ERR_HTTP"

AGENTC_RUN_SUCCESS        == "AGENTC_RUN_SUCCESS"
AGENTC_RUN_MAX_ITERATIONS == "AGENTC_RUN_MAX_ITERATIONS"
AGENTC_RUN_ERROR          == "AGENTC_RUN_ERROR"
AGENTC_RUN_ABORTED        == "AGENTC_RUN_ABORTED"

HookRets  == {0, 1}                     \* what a hook returns: 0 continue, non-zero abort
Texts     == {"text"}                   \* assistant content of a blocking response
Chunks    == {"he", "y"}                \* content chunks of a streamed response
CallIds   == {"call_1", "call_2"}
ToolNames == {"calc", "nosuch"}
ArgStrings == {"{}", "{bad"}            \* valid JSON, invalid JSON
HandlerOutputs == {NULL, "42"}
HandlerErrs    == {AGENTC_OK, AGENTC_ERR_HTTP}

ToolCall == [id : CallIds, name : ToolNames, arguments : ArgStrings]

SeqsUpTo(S, n) == UNION {[1..k -> S] : k \in 0..n}

\* what one handler invocation returns: the status and *output
HandlerReturns == [err : HandlerErrs, output : HandlerOutputs]


(***************************************************************************)
(* Tool registry (src/src/tool.c).                                         *)
(***************************************************************************)
Range(f) == {f[i] : i \in DOMAIN f}

\* agentc_tool_get: whether a tool of that name is registered
agentc_tool_get(reg, name) == name \in Range(reg)

\* cJSON_Parse(call->arguments) as agentc_tool_execute uses it: non-NULL for valid JSON
ArgumentsParse(arguments) == arguments = "{}"

ExecutionFailedJson(err) ==
    "{\"error\": \"execution failed with code " \o err \o "\"}"

ToolNotFoundJson == "{\"error\": \"tool not found\"}"
InvalidArgumentsJson == "{\"error\": \"invalid arguments JSON\"}"

\* agentc_tool_execute with one fault: an unregistered tool name or a failing handler
\* is reported through the returned status, and *result is left empty
agentc_tool_execute_propagating(reg, call, h) ==
    IF ~agentc_tool_get(reg, call.name)
    THEN [err |-> AGENTC_ERR_INVALID_ARG,
          result |-> [tool_call_id |-> call.id, output |-> NULL, is_error |-> TRUE],
          handler |-> [invoked |-> FALSE, err |-> AGENTC_OK, output |-> NULL]]
    ELSE IF call.arguments # "" /\ ~ArgumentsParse(call.arguments)
    THEN [err |-> AGENTC_OK,
          result |-> [tool_call_id |-> call.id, output |-> InvalidArgumentsJson,
                      is_error |-> TRUE],
          handler |-> [invoked |-> FALSE, err |-> AGENTC_OK, output |-> NULL]]
    ELSE IF h.err # AGENTC_OK
    THEN [err |-> h.err,
          result |-> [tool_call_id |-> call.id, output |-> NULL, is_error |-> TRUE],
          handler |-> [invoked |-> TRUE, err |-> h.err, output |-> h.output]]
    ELSE [err |-> AGENTC_OK,
          result |-> [tool_call_id |-> call.id,
                      output |-> IF h.output # NULL THEN h.output ELSE "{}",
                      is_error |-> FALSE],
          handler |-> [invoked |-> TRUE, err |-> h.err, output |-> h.output]]

\* agentc_tool_execute with one fault: call->id is not copied into the result
agentc_tool_execute_unlabelled(reg, call, h) ==
    LET e == agentc_tool_execute_propagating(reg, call, h) IN
    [err |-> AGENTC_OK,
     result |-> [e.result EXCEPT !.tool_call_id = NULL,
                                 !.output = IF @ = NULL THEN ToolNotFoundJson ELSE @],
     handler |-> e.handler]

\* agentc_tool_execute: the returned status, *result, and what the handler did.
\* h is what the tool's handler returns if it is invoked.
agentc_tool_execute(reg, call, h) ==
    IF ~agentc_tool_get(reg, call.name)
    THEN [err |-> AGENTC_OK,
          result |-> [tool_call_id |-> call.id, output |-> ToolNotFoundJson,
                      is_error |-> TRUE],
          handler |-> [invoked |-> FALSE, err |-> AGENTC_OK, output |-> NULL]]
    ELSE IF call.arguments # "" /\ ~ArgumentsParse(call.arguments)
    THEN [err |-> AGENTC_OK,
          result |-> [tool_call_id |-> call.id, output |-> InvalidArgumentsJson,
                      is_error |-> TRUE],
          handler |-> [invoked |-> FALSE, err |-> AGENTC_OK, output |-> NULL]]
    ELSE IF h.err # AGENTC_OK
    THEN [err |-> AGENTC_OK,
          result |-> [tool_call_id |-> call.id,
                      output |-> IF h.output # NULL THEN h.output
                                 ELSE ExecutionFailedJson(h.err),
                      is_error |-> TRUE],
          handler |-> [invoked |-> TRUE, err |-> h.err, output |-> h.output]]
    ELSE [err |-> AGENTC_OK,
          result |-> [tool_call_id |-> call.id,
                      output |-> IF h.output # NULL THEN h.output ELSE "{}",
                      is_error |-> FALSE],
          handler |-> [invoked |-> TRUE, err |-> h.err, output |-> h.output]]

\* agentc_tool_execute_all: one agentc_tool_execute per call, in list order, the
\* results appended in that order; stops at the first call that does not return OK.
\* hs[i] is what the handler of call i returns if it is invoked.
RECURSIVE ExecuteFrom(_, _, _, _, _)
ExecuteFrom(reg, calls, hs, i, acc) ==
    IF i > Len(calls) THEN acc
    ELSE LET e == agentc_tool_execute(reg, calls[i], hs[i]) IN
         IF e.err # AGENTC_OK
         THEN [err |-> e.err, results |-> <<>>, handled |-> Append(acc.handled, e.handler)]
         ELSE ExecuteFrom(reg, calls, hs, i + 1,
                          [err |-> AGENTC_OK,
                           results |-> Append(acc.results, e.result),
                           handled |-> Append(acc.handled, e.handler)])

agentc_tool_execute_all(reg, calls, hs) ==
    ExecuteFrom(reg, calls, hs, 1, [err |-> AGENTC_OK, results |-> <<>>, handled |-> <<>>])

(***************************************************************************)
(* Messages (src/include/agentc/llm.h).                                    *)
(***************************************************************************)
Message(role, content) ==
    [role |-> role, content |-> content, tool_call_id |-> NULL, tool_calls |-> <<>>]

AssistantToolCalls(content, tool_calls) ==
    [role |-> "assistant", content |-> content, tool_call_id |-> NULL,
     tool_calls |-> tool_calls]

\* ToolResultMessage with one fault: the tool_call_id is not stored
ToolResultMessageWithoutId(tool_call_id, content) ==
    [role |-> "tool", content |-> content, tool_call_id |-> NULL, tool_calls |-> <<>>]

ToolResultMessage(tool_call_id, content) ==
    [role |-> "tool", content |-> content, tool_call_id |-> tool_call_id,
     tool_calls |-> <<>>]

\* the tool messages run_react_loop appends for a result list, in list order
ToolResultMessages(rs) ==
    [i \in 1..Len(rs) |-> ToolResultMessage(rs[i].tool_call_id, rs[i].output)]

(***************************************************************************)
(* Agent creation (src/src/agent.c).                                       *)
(***************************************************************************)
Configs ==
    [max_iterations : 0..MaxIterations, stream : BOOLEAN,
     tools : BOOLEAN, instructions : {NULL, "be brief"}]

agentc_agent_create(config) ==
    [tools |-> config.tools,
     instructions |-> config.instructions,
     max_iterations |-> IF config.max_iterations > 0 THEN config.max_iterations
                        ELSE AGENTC_AGENT_DEFAULT_MAX_ITERATIONS,
     stream |-> config.stream]

ZeroResult ==
    [status |-> AGENTC_RUN_SUCCESS, final_output |-> NULL, iterations |-> 0,
     error_code |-> AGENTC_OK]

NoResponse == [content |-> NULL, finish_reason |-> NULL, tool_calls |-> <<>>]
NoStream   == [content_buffer |-> "", content_len |-> 0, aborted |-> 0]

\* an agent is created without a registry or with one that holds the tool "calc"
\* the parts of the state an agent run does not touch
OutsideAgent == <<session_vars, mcp_vars, pool_vars, lib_vars>>

NoSession == [state |-> "none", agents |-> <<>>]

NoResult == [err |-> AGENTC_OK, request_id |-> 0, response_id |-> 0, via |-> "none"]

McpUnused ==
    /\ mcp_client = [transport |-> "none", request_id |-> 0, connected |-> FALSE]
    /\ sse = [sse_running |-> 0, sse_connected |-> 0, responses |-> <<>>]
    /\ mcp_pc = "idle"
    /\ mcp_elapsed = 0
    /\ mcp_result = NoResult
    /\ sse_events = 0
    /\ sse_dropped = {}
    /\ mcp_sent = <<>>

\* memset(&s_pool, 0, sizeof(s_pool))
ZeroPool ==
    [config |-> [max_connections |-> 0, idle_timeout_ms |-> 0],
     entries |-> <<>>, total_count |-> 0, active_count |-> 0, waiting_count |-> 0,
     total_acquires |-> 0, pool_hits |-> 0, pool_misses |-> 0, timeouts |-> 0,
     initialized |-> 0, shutting_down |-> 0]

NoFaults == [destroyed_sync_used |-> FALSE, locked_sync_destroyed |-> FALSE,
             double_destroy |-> FALSE, unheld_release |-> FALSE]

NoInit == [ret |-> "none", already |-> FALSE]

PoolUnused ==
    /\ s_pool = ZeroPool
    /\ mutex = [valid |-> FALSE, owner |-> 0]
    /\ th = <<>>
    /\ clients = <<>>
    /\ now = 0
    /\ pool_calls = 0
    /\ pool_faults = NoFaults
    /\ init_ret = NoInit

\* agentc_tool_registry_create: no tools, count 0
EmptyRegistry == [tools |-> <<>>, count |-> 0]

\* a NULL tool pointer
NoTool == [given |-> FALSE, name |-> NULL, handler |-> NULL]

NoProviderCall ==
    [op |-> "none", given |-> FALSE, name |-> NULL, ops |-> NULL,
     compatible |-> NULL, provider |-> NULL, ret |-> NULL]

ProvidersUnused ==
    /\ s_providers = <<>>
    /\ s_providers_initialized = 0
    /\ provider_call = NoProviderCall

RegistryUnused ==
    /\ tool_registry = EmptyRegistry
    /\ register_ret = "none"
    /\ register_tool = NoTool

NoAlloc == [size |-> 0, before |-> 0, offset |-> -1, called |-> FALSE]

ArenaUnused ==
    /\ s_arena = [capacity |-> 0, count |-> 0]
    /\ arena_log = [regions |-> <<>>, latest |-> NoAlloc, calls |-> 0]

CallToolUnused == tool_call = [stage |-> "none"]

SseSyncUnused == sse_sync = [requester |-> "none"] /\ sse_accesses = {}

ProtoUnused == mcp_proto = [stage |-> "none"]

ChatUnused == chat_call = [stage |-> "none"]

ReaderUnused == sse_reader = [stage |-> "none"]

CoreAgentUnused == core_agent = [stage |-> "none"]

LateUnused ==
    /\ ProtoUnused
    /\ ChatUnused
    /\ ReaderUnused
    /\ CoreAgentUnused

LibUnused ==
    /\ ProvidersUnused
    /\ RegistryUnused
    /\ ArenaUnused
    /\ CallToolUnused
    /\ SseSyncUnused
    /\ LateUnused

SessionUnused ==
    /\ session = NoSession
    /\ heap = <<>>
    /\ handles = {}
    /\ destroy_log = <<>>
    /\ stale_access = {}
    /\ crashed = FALSE

InitAgent ==
    /\ SessionUnused
    /\ McpUnused
    /\ PoolUnused
    /\ LibUnused
    /\ \E config \in Configs :
          /\ agent = agentc_agent_create(config)
          /\ registry = (IF config.tools THEN <<"calc">> ELSE <<>>)
    /\ messages = <<>>
    /\ result = ZeroResult
    /\ pc = "idle"
    /\ iter = 0
    /\ resp = NoResponse
    /\ results = <<>>
    /\ stream_ctx = NoStream
    /\ req_messages = <<>>
    /\ llm_calls = 0
    /\ tool_execs = 0
    /\ tool_rounds = 0
    /\ handled = <<>>
    /\ on_start_ret = 0
    /\ entry = NULL
    /\ streamed_calls = <<>>
    /\ content_ret = 0

(***************************************************************************)
(* agentc_agent_run / agentc_agent_run_with_history (src/src/agent.c).     *)
(* A hook that is not set behaves as one that returns 0.                   *)
(***************************************************************************)
SystemMessage == Message("system", agent.instructions)

\* the histories a caller hands to agentc_agent_run_with_history
CallerHistories ==
    { <<Message("user", "hi")>>,
      <<Message("system", "be brief"), Message("user", "hi")>>,
      <<Message("user", "hi"),
        AssistantToolCalls(NULL, <<[id |-> "call_1", name |-> "calc", arguments |-> "{}"]>>),
        ToolResultMessage("call_1", "42"),
        Message("user", "more")>> }

\* the first statements of run_react_loop
EnterReactLoop ==
    /\ result' = ZeroResult
    /\ iter' = 0
    /\ pc' = "loop_top"

\* AbortedResult with one fault: the status written is AGENTC_RUN_ERROR
AbortedResultAsError(r) == [r EXCEPT !.status = AGENTC_RUN_ERROR]

AbortedResult(r) == [r EXCEPT !.status = AGENTC_RUN_ABORTED]

agentc_agent_run ==
    /\ pc = "idle"
    /\ \E ret \in HookRets :
          /\ on_start_ret' = ret
          /\ IF ret # 0
             THEN /\ result' = AbortedResult(ZeroResult)
                  /\ pc' = "Aborted"
                  /\ UNCHANGED <<messages, iter>>
             ELSE /\ messages' = (IF agent.instructions # NULL THEN <<SystemMessage>>
                                  ELSE <<>>) \o <<Message("user", "hi")>>
                  /\ EnterReactLoop
    /\ entry' = "agentc_agent_run"
    /\ UNCHANGED <<agent, registry, resp, results, stream_ctx, req_messages, llm_calls,
                   tool_execs, tool_rounds, handled, content_ret, streamed_calls>>
    /\ UNCHANGED OutsideAgent

agentc_agent_run_with_history ==
    /\ pc = "idle"
    /\ \E hist \in CallerHistories, ret \in HookRets :
          /\ messages' = IF agent.instructions # NULL /\ hist[1].role # "system"
                         THEN <<SystemMessage>> \o hist
                         ELSE hist
          /\ on_start_ret' = ret
          /\ IF ret # 0
             THEN /\ result' = AbortedResult(ZeroResult)
                  /\ pc' = "Aborted"
                  /\ UNCHANGED iter
             ELSE EnterReactLoop
    /\ entry' = "agentc_agent_run_with_history"
    /\ UNCHANGED <<agent, registry, resp, results, stream_ctx, req_messages, llm_calls,
                   tool_execs, tool_rounds, handled, content_ret, streamed_calls>>
    /\ UNCHANGED OutsideAgent

(***************************************************************************)
(* run_react_loop (src/src/agent.c).                                       *)
(***************************************************************************)
\* LoopCondition with one fault: <= in place of <
LoopConditionInclusive == iter <= agent.max_iterations

LoopCondition == iter < agent.max_iterations

\* the responses agentc_llm_chat can fill in
ChatResponses ==
    [content : {NULL} \cup Texts,
     finish_reason : {"stop", "tool_calls"},
     tool_calls : SeqsUpTo(ToolCall, MaxCalls)]

has_tool_calls(r) == r.tool_calls # <<>>
is_tool_calls_finish(r) == r.finish_reason # NULL /\ r.finish_reason = "tool_calls"
RequestsTools(r) == has_tool_calls(r) \/ is_tool_calls_finish(r)

\* the model's bound on what the LLM asks for in one run
WithinBudget(r) ==
    RequestsTools(r) =>
        /\ tool_rounds < MaxToolRounds
        /\ tool_execs + Len(r.tool_calls) <= MaxToolCalls

ErrorResult(r, err) == [r EXCEPT !.status = AGENTC_RUN_ERROR, !.error_code = err]

\* the branch on the response, lines 268-273
Dispatch(r) ==
    /\ pc' = IF RequestsTools(r) THEN "tool_calls" ELSE "final"
    /\ tool_rounds' = IF RequestsTools(r) THEN tool_rounds + 1 ELSE tool_rounds

\* one iteration in blocking mode up to the branch on the response
ChatBlocking ==
    /\ pc = "loop_top"
    /\ LoopCondition
    /\ ~agent.stream
    /\ llm_calls' = llm_calls + 1
    /\ req_messages' = messages
    /\ \E err \in {AGENTC_OK, AGENTC_ERR_HTTP} :
          IF err # AGENTC_OK
          THEN /\ result' = ErrorResult([result EXCEPT !.iterations = iter + 1], err)
               /\ pc' = "Error"
               /\ UNCHANGED <<resp, tool_rounds, content_ret>>
          ELSE \E r \in ChatResponses, ret \in HookRets :
                  /\ WithinBudget(r)
                  /\ IF r.content # NULL /\ ret # 0
                     THEN /\ resp' = NoResponse
                          /\ content_ret' = ret
                          /\ result' = AbortedResult([result EXCEPT !.iterations = iter + 1])
                          /\ pc' = "Aborted"
                          /\ UNCHANGED tool_rounds
                     ELSE /\ resp' = r
                          /\ result' = [result EXCEPT !.iterations = iter + 1]
                          /\ Dispatch(r)
                          /\ UNCHANGED content_ret
    /\ UNCHANGED <<agent, registry, messages, iter, results, stream_ctx, tool_execs,
                   handled, on_start_ret, entry, streamed_calls>>
    /\ UNCHANGED OutsideAgent

\* the exit of the for loop, lines 360-368
HitMaxIterations ==
    /\ pc = "loop_top"
    /\ ~LoopCondition
    /\ result' = [result EXCEPT !.status = AGENTC_RUN_MAX_ITERATIONS]
    /\ pc' = "MaxIter"
    /\ UNCHANGED <<agent, registry, messages, iter, resp, results, stream_ctx,
                   req_messages, llm_calls, tool_execs, tool_rounds, handled,
                   on_start_ret, entry, streamed_calls, content_ret>>
    /\ UNCHANGED OutsideAgent

\* ExecuteTools with one fault: the iteration cap is looked at before the tools
\* run, and the last iteration allowed executes none
ExecuteToolsWithinCap ==
    /\ pc = "tool_calls"
    /\ IF iter + 1 >= agent.max_iterations
       THEN /\ result' = [result EXCEPT !.status = AGENTC_RUN_MAX_ITERATIONS]
            /\ pc' = "MaxIter"
            /\ resp' = NoResponse
            /\ UNCHANGED <<messages, results, handled, tool_execs>>
       ELSE IF ~agent.tools
       THEN /\ result' = ErrorResult(result, AGENTC_ERR_INVALID_ARG)
            /\ pc' = "Error"
            /\ resp' = NoResponse
            /\ UNCHANGED <<messages, results, handled, tool_execs>>
       ELSE \E ret \in HookRets :
               IF ret # 0
               THEN /\ result' = AbortedResult(result)
                    /\ pc' = "Aborted"
                    /\ resp' = NoResponse
                    /\ UNCHANGED <<messages, results, handled, tool_execs>>
               ELSE \E hs \in [1..Len(resp.tool_calls) -> HandlerReturns] :
                       LET e == agentc_tool_execute_all(registry, resp.tool_calls, hs) IN
                       /\ messages' = Append(messages,
                                             AssistantToolCalls(resp.content, resp.tool_calls))
                       /\ tool_execs' = tool_execs + Len(e.handled)
                       /\ IF e.err # AGENTC_OK
                          THEN /\ result' = ErrorResult(result, e.err)
                               /\ pc' = "Error"
                               /\ resp' = NoResponse
                               /\ UNCHANGED <<results, handled>>
                          ELSE /\ results' = e.results
                               /\ handled' = e.handled
                               /\ pc' = "tool_results"
                               /\ UNCHANGED <<result, resp>>
    /\ UNCHANGED <<agent, registry, iter, stream_ctx, req_messages, llm_calls,
                   tool_rounds, on_start_ret, entry, streamed_calls, content_ret>>
    /\ UNCHANGED OutsideAgent

\* the tool branch up to and including agentc_tool_execute_all, lines 274-312
ExecuteTools ==
    /\ pc = "tool_calls"
    /\ IF ~agent.tools
       THEN /\ result' = ErrorResult(result, AGENTC_ERR_INVALID_ARG)
            /\ pc' = "Error"
            /\ resp' = NoResponse
            /\ UNCHANGED <<messages, results, handled, tool_execs>>
       ELSE \E ret \in HookRets :
               IF ret # 0
               THEN /\ result' = AbortedResult(result)
                    /\ pc' = "Aborted"
                    /\ resp' = NoResponse
                    /\ UNCHANGED <<messages, results, handled, tool_execs>>
               ELSE \E hs \in [1..Len(resp.tool_calls) -> HandlerReturns] :
                       LET e == agentc_tool_execute_all(registry, resp.tool_calls, hs) IN
                       /\ messages' = Append(messages,
                                             AssistantToolCalls(resp.content, resp.tool_calls))
                       /\ tool_execs' = tool_execs + Len(e.handled)
                       /\ IF e.err # AGENTC_OK
                          THEN /\ result' = ErrorResult(result, e.err)
                               /\ pc' = "Error"
                               /\ resp' = NoResponse
                               /\ UNCHANGED <<results, handled>>
                          ELSE /\ results' = e.results
                               /\ handled' = e.handled
                               /\ pc' = "tool_results"
                               /\ UNCHANGED <<result, resp>>
    /\ UNCHANGED <<agent, registry, iter, stream_ctx, req_messages, llm_calls,
                   tool_rounds, on_start_ret, entry, streamed_calls, content_ret>>
    /\ UNCHANGED OutsideAgent

\* the rest of the tool branch, lines 314-339, and the loop's iter++
AppendToolResults ==
    /\ pc = "tool_results"
    /\ \E ret \in HookRets :
          IF ret # 0
          THEN /\ result' = AbortedResult(result)
               /\ pc' = "Aborted"
               /\ UNCHANGED <<messages, iter>>
          ELSE /\ messages' = messages \o ToolResultMessages(results)
               /\ iter' = iter + 1
               /\ pc' = "loop_top"
               /\ UNCHANGED result
    /\ results' = <<>>
    /\ handled' = <<>>
    /\ resp' = NoResponse
    /\ UNCHANGED <<agent, registry, stream_ctx, req_messages, llm_calls,
                   tool_execs, tool_rounds, on_start_ret, entry, streamed_calls, content_ret>>
    /\ UNCHANGED OutsideAgent

\* the final response, lines 342-357
FinalResponse ==
    /\ pc = "final"
    /\ result' = [result EXCEPT !.status = AGENTC_RUN_SUCCESS,
                                !.final_output = resp.content]
    /\ pc' = "Done"
    /\ resp' = NoResponse
    /\ UNCHANGED <<agent, registry, messages, iter, results, stream_ctx,
                   req_messages, llm_calls, tool_execs, tool_rounds, handled,
                   on_start_ret, entry, streamed_calls, content_ret>>
    /\ UNCHANGED OutsideAgent

(***************************************************************************)
(* Streaming mode, lines 192-239, and agent_stream_callback.               *)
(***************************************************************************)
ChunkLen(delta) == IF delta = "he" THEN 2 ELSE 1

\* agentc_llm_chat_stream is entered with a fresh agent_stream_ctx_t
StreamBegin ==
    /\ pc = "loop_top"
    /\ LoopCondition
    /\ agent.stream
    /\ result' = [result EXCEPT !.iterations = iter + 1]
    /\ stream_ctx' = NoStream
    /\ llm_calls' = llm_calls + 1
    /\ req_messages' = messages
    /\ pc' = "streaming"
    /\ UNCHANGED <<agent, registry, messages, iter, resp, results, tool_execs,
                   tool_rounds, handled, on_start_ret, entry, streamed_calls, content_ret>>
    /\ UNCHANGED OutsideAgent

\* one content chunk arrives; a chunk is delivered only while no callback asked to abort
agent_stream_callback ==
    /\ pc = "streaming"
    /\ stream_ctx.aborted = 0
    /\ stream_ctx.content_len < MaxDeltas * 2
    /\ \E delta \in Chunks, ret \in HookRets :
          /\ stream_ctx' = [content_buffer |-> stream_ctx.content_buffer \o delta,
                            content_len |-> stream_ctx.content_len + ChunkLen(delta),
                            aborted |-> IF ret # 0 THEN 1 ELSE 0]
          /\ content_ret' = IF ret # 0 THEN ret ELSE content_ret
    /\ UNCHANGED <<agent, registry, messages, result, pc, iter, resp, results,
                   req_messages, llm_calls, tool_execs, tool_rounds, handled, on_start_ret, entry, streamed_calls>>
    /\ UNCHANGED OutsideAgent

\* agentc_llm_chat_stream returns err; lines 215-239 and the branch on the response
StreamEnd ==
    /\ pc = "streaming"
    /\ \E err \in {AGENTC_OK, AGENTC_ERR_HTTP}, ret \in HookRets :
          IF stream_ctx.aborted # 0
          THEN /\ result' = AbortedResult(result)
               /\ pc' = "Aborted"
               /\ UNCHANGED <<resp, tool_rounds, content_ret, streamed_calls>>
          ELSE IF err # AGENTC_OK
          THEN /\ result' = ErrorResult(result, err)
               /\ pc' = "Error"
               /\ UNCHANGED <<resp, tool_rounds, content_ret, streamed_calls>>
          ELSE LET r == [content |-> stream_ctx.content_buffer,
                         finish_reason |-> "stop",
                         tool_calls |-> <<>>] IN
               /\ resp' = r
               \* the tool calls of the stream reach no callback of the agent
               /\ streamed_calls' \in SeqsUpTo(ToolCall, MaxCalls)
               \* on_content("", 0, 1): the value it returns is not looked at
               /\ content_ret' = IF stream_ctx.content_len > 0 /\ ret # 0 THEN ret
                                 ELSE content_ret
               /\ Dispatch(r)
               /\ UNCHANGED result
    /\ UNCHANGED <<agent, registry, messages, iter, results, stream_ctx, req_messages,
                   llm_calls, tool_execs, handled, on_start_ret, entry>>
    /\ UNCHANGED OutsideAgent

NextAgent ==
    \/ agentc_agent_run
    \/ agentc_agent_run_with_history
    \/ ChatBlocking
    \/ StreamBegin
    \/ agent_stream_callback
    \/ StreamEnd
    \/ ExecuteTools
    \/ AppendToolResults
    \/ FinalResponse
    \/ HitMaxIterations

SpecAgent == InitAgent /\ [][NextAgent]_vars

(***************************************************************************)
(* Session and agent lifecycle (src/libs/ac_core/src/session.c and         *)
(* src/libs/ac_core/src/agent.c).  An address stands for an ac_agent_t     *)
(* together with its agent_priv_t and its arena: ac_agent_create allocates *)
(* and ac_agent_destroy frees the three together.  The caller follows the  *)
(* API: it passes only pointers it got from ac_agent_create and has not    *)
(* destroyed, and does not use a session it has closed.                    *)
(***************************************************************************)
MAX_AGENTS == 32

Addrs == 1..MaxAgents

\* no other subsystem moves while the session is used
OutsideSession == <<agent_vars, mcp_vars, pool_vars, lib_vars>>

AgentUnused ==
    /\ agent = agentc_agent_create([max_iterations |-> 0, stream |-> FALSE,
                                    tools |-> FALSE, instructions |-> NULL])
    /\ registry = <<>>
    /\ messages = <<>>
    /\ result = ZeroResult
    /\ pc = "idle"
    /\ iter = 0
    /\ resp = NoResponse
    /\ results = <<>>
    /\ stream_ctx = NoStream
    /\ req_messages = <<>>
    /\ llm_calls = 0
    /\ tool_execs = 0
    /\ tool_rounds = 0
    /\ handled = <<>>
    /\ on_start_ret = 0
    /\ entry = NULL
    /\ streamed_calls = <<>>
    /\ content_ret = 0

InitSession ==
    /\ AgentUnused
    /\ McpUnused
    /\ PoolUnused
    /\ LibUnused
    /\ session = NoSession
    /\ heap = [a \in Addrs |-> "unused"]
    /\ handles = {}
    /\ destroy_log = <<>>
    /\ stale_access = {}
    /\ crashed = FALSE

ac_session_open ==
    /\ ~crashed
    /\ session.state = "none"
    /\ session' = [state |-> "open", agents |-> <<>>]
    /\ UNCHANGED <<heap, handles, destroy_log, stale_access, crashed>>
    /\ UNCHANGED OutsideSession

\* ac_session_add_agent: the agents array after the call, unchanged when it is full
ac_session_add_agent(agents, a) ==
    IF Len(agents) >= MAX_AGENTS THEN agents ELSE Append(agents, a)

\* calloc returns any address that is not live, a freed one included
ac_agent_create ==
    /\ ~crashed
    /\ session.state = "open"
    /\ Len(session.agents) < MaxAgents
    /\ \E a \in Addrs :
          /\ heap[a] # "live"
          /\ IF Len(session.agents) >= MAX_AGENTS
             THEN /\ heap' = [heap EXCEPT ![a] = "freed"]
                  /\ UNCHANGED <<session, handles>>
             ELSE /\ heap' = [heap EXCEPT ![a] = "live"]
                  /\ session' = [session EXCEPT
                                    !.agents = ac_session_add_agent(session.agents, a)]
                  /\ handles' = handles \cup {a}
    /\ UNCHANGED <<destroy_log, stale_access, crashed>>
    /\ UNCHANGED OutsideSession

\* one ac_agent_destroy(a) on heap h: the heap after it and whether a was live.
\* The session's agents array is not touched.
DestroyAgent(h, a) ==
    [heap |-> [h EXCEPT ![a] = "freed"], was_live |-> h[a] = "live"]

\* the caller destroys an agent it holds
ac_agent_destroy ==
    /\ ~crashed
    /\ \E a \in handles :
          /\ heap' = DestroyAgent(heap, a).heap
          /\ handles' = handles \ {a}
          /\ destroy_log' = Append(destroy_log, [agent |-> a, by |-> "ac_agent_destroy"])
    /\ UNCHANGED <<session, stale_access, crashed>>
    /\ UNCHANGED OutsideSession

\* the loop of ac_session_close over agents[from..last], in array order
RECURSIVE CloseLoop(_, _, _, _)
CloseLoop(agents, i, last, acc) ==
    IF i > last THEN acc
    ELSE LET d == DestroyAgent(acc.heap, agents[i]) IN
         CloseLoop(agents, i + 1, last,
                   [heap |-> d.heap,
                    log |-> Append(acc.log, [agent |-> agents[i], by |-> "ac_session_close"]),
                    stale |-> IF d.was_live THEN acc.stale ELSE acc.stale \cup {agents[i]},
                    last_stale |-> ~d.was_live])

\* ac_session_close.  Destroying an entry that is no longer live is undefined
\* behaviour: the process either ends there or goes on with the loop.
ac_session_close ==
    /\ ~crashed
    /\ session.state = "open"
    /\ \E last \in 0..Len(session.agents), goes_on \in BOOLEAN :
          LET c == CloseLoop(session.agents, 1, last,
                             [heap |-> heap, log |-> destroy_log, stale |-> stale_access,
                              last_stale |-> FALSE])
          IN  /\ IF goes_on THEN last = Len(session.agents)
                 ELSE last > 0 /\ c.last_stale
              /\ heap' = c.heap
              /\ destroy_log' = c.log
              /\ stale_access' = c.stale
              /\ crashed' = ~goes_on
              /\ session' = IF goes_on THEN [state |-> "closed", agents |-> <<>>]
                            ELSE session
              /\ handles' = {}
    /\ UNCHANGED OutsideSession

NextSession ==
    \/ ac_session_open
    \/ ac_agent_create
    \/ ac_agent_destroy
    \/ ac_session_close

SpecSession == InitSession /\ [][NextSession]_vars

\* C6 as stated: after an agent and its arena have been destroyed, by ac_agent_destroy
\* or by ac_session_close, no later operation of the runtime (a later ac_session_close
\* included) reads, writes or frees that agent or memory allocated from its arena.
C6_Original == stale_access = {}

(***************************************************************************)
(* MCP JSON-RPC call over the two transports (src/libs/ac_core/src/mcp).   *)
(* The client is connected.  A message body is described by what the code  *)
(* looks at: whether it is empty, parses as JSON, has a "jsonrpc" member,  *)
(* the number in its "id" member (0 if there is none) and whether it has   *)
(* an "error" object.  The server and the network choose the bodies.       *)
(***************************************************************************)
AGENTC_ERR_NOT_CONNECTED == "AGENTC_ERR_NOT_CONNECTED"
AGENTC_ERR_TIMEOUT == "AGENTC_ERR_TIMEOUT"
AGENTC_ERR_PROTOCOL == "AGENTC_ERR_PROTOCOL"

SSE_MAX_PENDING_RESPONSES == 16

ResponseIds == 0..MaxRequests

EmptyBody == [empty |-> TRUE, json |-> FALSE, jsonrpc |-> FALSE, id |-> 0, error |-> FALSE]

JsonRpcBodies ==
    [empty : {FALSE}, json : {TRUE}, jsonrpc : {TRUE}, id : ResponseIds, error : BOOLEAN]

\* nothing, text that is not JSON, JSON that is not JSON-RPC, a JSON-RPC message
Bodies ==
    {EmptyBody,
     [empty |-> FALSE, json |-> FALSE, jsonrpc |-> FALSE, id |-> 0, error |-> FALSE],
     [empty |-> FALSE, json |-> TRUE, jsonrpc |-> FALSE, id |-> 0, error |-> FALSE]}
        \cup JsonRpcBodies

OutsideMcp == <<agent_vars, session_vars, pool_vars, lib_vars>>

InitMcp ==
    /\ AgentUnused
    /\ SessionUnused
    /\ PoolUnused
    /\ LibUnused
    /\ \E transport \in {"http", "sse"} :
          /\ mcp_client = [transport |-> transport, request_id |-> 0, connected |-> TRUE]
          /\ sse = IF transport = "sse"
                   THEN [sse_running |-> 1, sse_connected |-> 1, responses |-> <<>>]
                   ELSE [sse_running |-> 0, sse_connected |-> 0, responses |-> <<>>]
    /\ mcp_pc = "idle"
    /\ mcp_elapsed = 0
    /\ mcp_result = NoResult
    /\ sse_events = 0
    /\ sse_dropped = {}
    /\ mcp_sent = <<>>

\* mcp_parse_response on a response body
mcp_parse_response(body) ==
    IF ~body.json THEN AGENTC_ERR_PROTOCOL
    ELSE IF body.error THEN AGENTC_ERR_PROTOCOL
    ELSE AGENTC_OK

\* http_request for a request with a non-zero id: the status it returns and the body
\* it hands back; err and status_ok are the outcome of agentc_http_request
http_request(err, status_ok, body) ==
    IF err # AGENTC_OK THEN [err |-> err, has_response |-> FALSE]
    ELSE IF ~status_ok THEN [err |-> AGENTC_ERR_HTTP, has_response |-> FALSE]
    ELSE IF body.empty THEN [err |-> AGENTC_ERR_PROTOCOL, has_response |-> FALSE]
    ELSE [err |-> AGENTC_OK, has_response |-> TRUE]

\* the end of mcp_rpc_call, from the transport's return on
RpcReturn(request_id, transport_err, has_response, body, via) ==
    IF transport_err # AGENTC_OK
    THEN [err |-> transport_err, request_id |-> request_id, response_id |-> 0, via |-> via]
    ELSE IF ~has_response
    THEN [err |-> AGENTC_ERR_PROTOCOL, request_id |-> request_id, response_id |-> 0,
          via |-> via]
    ELSE [err |-> mcp_parse_response(body), request_id |-> request_id,
          response_id |-> body.id, via |-> via]

\* mcp_build_request with one fault: the counter is not advanced
mcp_build_request_same_id(client) ==
    [client |-> client,
     id |-> client.request_id,
     json |-> [method |-> "request", has_id |-> TRUE, id |-> client.request_id]]

\* mcp_build_request: ++client->request_id is the "id" of the request
mcp_build_request(client) ==
    [client |-> [client EXCEPT !.request_id = @ + 1],
     id |-> client.request_id + 1,
     json |-> [method |-> "request", has_id |-> TRUE, id |-> client.request_id + 1]]

\* mcp_build_notification: "jsonrpc" and "method", no "id"
mcp_build_notification == [method |-> "notification", has_id |-> FALSE, id |-> 0]

NotificationsSent == Cardinality({i \in DOMAIN mcp_sent : ~mcp_sent[i].has_id})

\* the notifications/initialized message of ac_mcp_connect, lines 410-430: it is
\* sent through the transport's request with request_id 0 and whatever comes back
\* is ignored
ac_mcp_connect_notify ==
    /\ mcp_pc = "idle"
    /\ mcp_client.connected
    /\ NotificationsSent < MaxNotifications
    /\ mcp_sent' = Append(mcp_sent, mcp_build_notification)
    /\ UNCHANGED <<mcp_client, sse, mcp_pc, mcp_elapsed, mcp_result, sse_events,
                   sse_dropped>>
    /\ UNCHANGED OutsideMcp

\* mcp_rpc_call on the Streamable-HTTP transport
mcp_rpc_call_http ==
    /\ mcp_pc = "idle"
    /\ mcp_client.transport = "http"
    /\ mcp_client.connected
    /\ mcp_client.request_id < MaxRequests
    /\ LET id == mcp_build_request(mcp_client).id IN
       /\ mcp_client' = mcp_build_request(mcp_client).client
       /\ mcp_sent' = Append(mcp_sent, mcp_build_request(mcp_client).json)
       /\ \E err \in {AGENTC_OK, AGENTC_ERR_TIMEOUT}, status_ok \in BOOLEAN,
             body \in Bodies :
             LET t == http_request(err, status_ok, body) IN
             mcp_result' = RpcReturn(id, t.err, t.has_response, body, "http")
    /\ UNCHANGED <<sse, mcp_pc, mcp_elapsed, sse_events, sse_dropped>>
    /\ UNCHANGED OutsideMcp

\* mcp_rpc_call on the SSE transport, up to the polling loop of sse_request
mcp_rpc_call_sse ==
    /\ mcp_pc = "idle"
    /\ mcp_client.transport = "sse"
    /\ mcp_client.connected
    /\ mcp_client.request_id < MaxRequests
    /\ LET id == mcp_build_request(mcp_client).id IN
       /\ mcp_client' = mcp_build_request(mcp_client).client
       /\ mcp_sent' = Append(mcp_sent, mcp_build_request(mcp_client).json)
       /\ \E err \in {AGENTC_OK, AGENTC_ERR_TIMEOUT}, body \in Bodies :
             IF err # AGENTC_OK
             THEN /\ mcp_result' = RpcReturn(id, err, FALSE, body, "post")
                  /\ UNCHANGED <<mcp_pc, mcp_elapsed>>
             ELSE IF ~body.empty /\ body.json /\ body.jsonrpc
             THEN /\ mcp_result' = RpcReturn(id, AGENTC_OK, TRUE, body, "post_body")
                  /\ UNCHANGED <<mcp_pc, mcp_elapsed>>
             ELSE /\ mcp_pc' = "waiting"
                  /\ mcp_elapsed' = 0
                  /\ mcp_result' = [NoResult EXCEPT !.request_id = id]
    /\ sse_dropped' = {}
    /\ UNCHANGED <<sse, sse_events>>
    /\ UNCHANGED OutsideMcp

\* index of the first queued response with this id, 0 if there is none
FirstWithId(responses, id) ==
    IF \E i \in DOMAIN responses : responses[i].id = id
    THEN CHOOSE i \in DOMAIN responses :
            /\ responses[i].id = id
            /\ \A j \in 1..(i - 1) : responses[j].id # id
    ELSE 0

RemoveAt(q, i) == [j \in 1..(Len(q) - 1) |-> IF j < i THEN q[j] ELSE q[j + 1]]

\* one pass of the polling loop of sse_request, lines 468-497, and the return after it
sse_request_poll ==
    /\ mcp_pc = "waiting"
    /\ LET id == mcp_client.request_id
           i == FirstWithId(sse.responses, id)
       IN  IF mcp_elapsed >= MaxPolls
           THEN /\ mcp_result' = RpcReturn(id, AGENTC_ERR_TIMEOUT, FALSE, EmptyBody, "queue")
                /\ mcp_pc' = "idle"
                /\ UNCHANGED <<sse, mcp_elapsed>>
           ELSE IF i # 0
           THEN /\ mcp_result' = RpcReturn(id, AGENTC_OK, TRUE, sse.responses[i], "queue")
                /\ sse' = [sse EXCEPT !.responses = RemoveAt(sse.responses, i)]
                /\ mcp_pc' = "idle"
                /\ UNCHANGED mcp_elapsed
           ELSE IF sse.sse_running = 0 \/ sse.sse_connected < 0
           THEN /\ mcp_result' = RpcReturn(id, AGENTC_ERR_NOT_CONNECTED, FALSE, EmptyBody,
                                           "queue")
                /\ mcp_pc' = "idle"
                /\ UNCHANGED <<sse, mcp_elapsed>>
           ELSE /\ mcp_elapsed' = mcp_elapsed + 1
                /\ UNCHANGED <<sse, mcp_pc, mcp_result>>
    /\ UNCHANGED <<mcp_client, sse_events, sse_dropped, mcp_sent>>
    /\ UNCHANGED OutsideMcp

\* sse_on_event without its test of response_count
sse_on_event_unbounded ==
    /\ sse.sse_running = 1
    /\ sse.sse_connected = 1
    /\ sse_events < MaxEvents
    /\ sse_events' = sse_events + 1
    /\ \E body \in JsonRpcBodies :
          sse' = [sse EXCEPT !.responses = Append(sse.responses, body)]
    /\ UNCHANGED <<mcp_client, mcp_pc, mcp_elapsed, mcp_result, sse_dropped, mcp_sent>>
    /\ UNCHANGED OutsideMcp

\* the reader thread receives a message event whose data is a JSON-RPC message
sse_on_event ==
    /\ sse.sse_running = 1
    /\ sse.sse_connected = 1
    /\ sse_events < MaxEvents
    /\ sse_events' = sse_events + 1
    /\ \E body \in JsonRpcBodies :
          IF Len(sse.responses) < SSE_MAX_PENDING_RESPONSES
          THEN /\ sse' = [sse EXCEPT !.responses = Append(sse.responses, body)]
               /\ UNCHANGED sse_dropped
          ELSE /\ sse_dropped' = sse_dropped \cup {body.id}
               /\ UNCHANGED sse
    /\ UNCHANGED <<mcp_client, mcp_pc, mcp_elapsed, mcp_result, mcp_sent>>
    /\ UNCHANGED OutsideMcp

\* the reader thread's stream request fails: sse_thread_func, lines 275-290
sse_thread_stream_failed ==
    /\ sse.sse_running = 1
    /\ sse.sse_connected = 1
    /\ sse' = [sse EXCEPT !.sse_connected = -1]
    /\ UNCHANGED <<mcp_client, mcp_pc, mcp_elapsed, mcp_result, sse_events, sse_dropped,
                   mcp_sent>>
    /\ UNCHANGED OutsideMcp

\* the reader thread has reconnected and receives the endpoint event, lines 180-188
sse_on_endpoint_event ==
    /\ sse.sse_running = 1
    /\ sse.sse_connected = -1
    /\ sse' = [sse EXCEPT !.sse_connected = 1]
    /\ UNCHANGED <<mcp_client, mcp_pc, mcp_elapsed, mcp_result, sse_events, sse_dropped,
                   mcp_sent>>
    /\ UNCHANGED OutsideMcp

NextMcp ==
    \/ ac_mcp_connect_notify
    \/ mcp_rpc_call_http
    \/ mcp_rpc_call_sse
    \/ sse_request_poll
    \/ sse_on_event
    \/ sse_thread_stream_failed
    \/ sse_on_endpoint_event

SpecMcp == InitMcp /\ [][NextMcp]_vars

\* A message event that carries no id (a notification of the server) is queued under
\* id 0 and no request collects it.  The transport after StaleResponses of them:
NotificationBody ==
    [empty |-> FALSE, json |-> TRUE, jsonrpc |-> TRUE, id |-> 0, error |-> FALSE]

InitSseFull ==
    /\ AgentUnused
    /\ SessionUnused
    /\ PoolUnused
    /\ LibUnused
    /\ mcp_client = [transport |-> "sse", request_id |-> 0, connected |-> TRUE]
    /\ sse = [sse_running |-> 1, sse_connected |-> 1,
              responses |-> [i \in 1 .. StaleResponses |-> NotificationBody]]
    /\ mcp_pc = "idle"
    /\ mcp_elapsed = 0
    /\ mcp_result = NoResult
    /\ sse_events = 0
    /\ sse_dropped = {}
    /\ mcp_sent = <<>>

NextSse ==
    \/ mcp_rpc_call_sse
    \/ sse_request_poll
    \/ sse_on_event
    \/ sse_thread_stream_failed
    \/ sse_on_endpoint_event

SpecSseFull == InitSseFull /\ [][NextSse]_vars

\* C4 as stated: for every MCP request sent with a non-zero id, over either transport
\* (an SSE request answered directly in the POST body included), the JSON-RPC response
\* handed back to the caller carries the same id as the request.
C4_Original ==
    (mcp_result.err = AGENTC_OK /\ mcp_result.via # "none" /\ mcp_result.request_id # 0)
        => mcp_result.response_id = mcp_result.request_id

(***************************************************************************)
(* The HTTP connection pool                                                *)
(* (src/libs/ac_hosted/src/http_pool/http_pool.c).                         *)
(*                                                                         *)
(* The pool is one global, s_pool, shared by every thread.  A pool call is *)
(* modelled step by step: the reads it makes before it takes the mutex,    *)
(* the lock, the parts of its critical section, its waits.  A thread that  *)
(* owns the mutex excludes the others from their critical sections, so the *)
(* split shows only where the mutex gives no exclusion.  The condition     *)
(* variable is initialised and destroyed together with the mutex.          *)
(*                                                                         *)
(* pthread_mutex_lock on a destroyed mutex is undefined: it either works   *)
(* as on a live mutex, or returns an error the code does not look at, and  *)
(* the thread goes on without owning anything.  pthread_mutex_destroy on a *)
(* locked mutex is undefined: it either fails and leaves the mutex alone,  *)
(* or destroys it.                                                         *)
(***************************************************************************)
HTTP_POOL_DEFAULT_MAX_CONNECTIONS == 16
HTTP_POOL_DEFAULT_IDLE_TIMEOUT_MS == 60000

\* uint64_t and size_t arithmetic, narrowed to 20 bits
UintModulus == 2 ^ 20
USub(a, b) == (a - b + UintModulus) % UintModulus
UAdd(a, b) == (a + b) % UintModulus

Threads == 1 .. NThreads
ClientAddrs == 1 .. MaxClients
\* the clock at the first pool call: just after boot, or long after
ClockStarts == {0, 100000}
\* ac_http_pool_config_t values a caller passes (0 selects the default)
PoolConfigs == [max_connections : {0, 1, 2}, idle_timeout_ms : {0, 1}]

OutsidePool == <<agent_vars, session_vars, mcp_vars, lib_vars>>

InitPool ==
    /\ AgentUnused
    /\ SessionUnused
    /\ McpUnused
    /\ LibUnused
    /\ s_pool = ZeroPool
    /\ mutex = [valid |-> FALSE, owner |-> 0]
    /\ th = [t \in Threads |-> [pc |-> "idle", holds |-> 0, woke |-> "none"]]
    /\ clients = [c \in ClientAddrs |-> "unused"]
    /\ now \in ClockStarts
    /\ pool_calls = 0
    /\ pool_faults = NoFaults
    /\ init_ret = NoInit

get_current_time_ms == now

\* the caller of thread t starts a pool call
CallerStarts(t) ==
    /\ th[t].pc = "idle"
    /\ pool_calls < MaxPoolCalls
    /\ pool_calls' = pool_calls + 1

\* pthread_mutex_lock(&s_pool.mutex) by thread t: the mutex after it
MutexLocked(t) ==
    IF mutex.valid
    THEN IF mutex.owner = 0 THEN {[mutex EXCEPT !.owner = t]} ELSE {}
    ELSE {mutex} \cup (IF mutex.owner = 0 THEN {[mutex EXCEPT !.owner = t]} ELSE {})

\* pthread_mutex_unlock(&s_pool.mutex) by thread t
MutexUnlocked(t) == IF mutex.owner = t THEN [mutex EXCEPT !.owner = 0] ELSE mutex

\* the fault record after thread t has used the mutex
SyncUsed == [pool_faults EXCEPT !.destroyed_sync_used = @ \/ ~mutex.valid]

\* arc_http_client_destroy(c) on the client table cl
ClientDestroyed(cl, c) == [cl EXCEPT ![c] = "destroyed"]

\* indexes of s_pool.entries
EntryIdx(entries) == 1 .. Len(entries)

Min(S) == CHOOSE x \in S : \A y \in S : x <= y

\* find_idle_entry: index of the first entry not in use, 0 for NULL
find_idle_entry(entries) ==
    LET idle == {i \in EntryIdx(entries) : entries[i].in_use = 0}
    IN  IF idle = {} THEN 0 ELSE Min(idle)

\* find_entry_by_client: index of the first entry of client c, 0 for NULL
find_entry_by_client(entries, c) ==
    LET found == {i \in EntryIdx(entries) : entries[i].client = c}
    IN  IF found = {} THEN 0 ELSE Min(found)

\* the pass of cleanup_idle_connections over the list from entry i on:
\* st is [entries kept so far, total_count, clients]
RECURSIVE CleanupFrom(_, _, _, _)
CleanupFrom(entries, i, cutoff, st) ==
    IF i > Len(entries) THEN st
    ELSE LET e == entries[i]
         IN  IF e.in_use = 0 /\ e.last_used_ms < cutoff /\ st.total_count > 1
             THEN CleanupFrom(entries, i + 1, cutoff,
                      [kept |-> st.kept,
                       total_count |-> USub(st.total_count, 1),
                       clients |-> ClientDestroyed(st.clients, e.client)])
             ELSE CleanupFrom(entries, i + 1, cutoff,
                      [st EXCEPT !.kept = Append(@, e)])

\* cleanup_idle_connections on pool p with client table cl: [pool, clients]
cleanup_idle_connections(p, cl) ==
    IF p.config.idle_timeout_ms = 0 THEN [pool |-> p, clients |-> cl]
    ELSE LET cutoff == USub(get_current_time_ms, p.config.idle_timeout_ms)
             st == CleanupFrom(p.entries, 1, cutoff,
                       [kept |-> <<>>, total_count |-> p.total_count, clients |-> cl])
         IN  [pool |-> [p EXCEPT !.entries = st.kept, !.total_count = st.total_count],
              clients |-> st.clients]

ARC_OK == "ARC_OK"

\* ac_http_pool_init with one fault: the pool is set up again whether or not it
\* is initialized
ac_http_pool_init_again(t) ==
    /\ CallerStarts(t)
    /\ \E config \in PoolConfigs :
        /\ init_ret' = [ret |-> ARC_OK, already |-> s_pool.initialized = 1]
        /\ s_pool' = [ZeroPool EXCEPT
               !.config = [max_connections |->
                               IF config.max_connections = 0
                               THEN HTTP_POOL_DEFAULT_MAX_CONNECTIONS
                               ELSE config.max_connections,
                           idle_timeout_ms |->
                               IF config.idle_timeout_ms = 0
                               THEN HTTP_POOL_DEFAULT_IDLE_TIMEOUT_MS
                               ELSE config.idle_timeout_ms],
               !.initialized = 1,
               !.shutting_down = 0]
        /\ mutex' = [valid |-> TRUE, owner |-> 0]
    /\ UNCHANGED <<th, clients, now, pool_faults>>
    /\ UNCHANGED OutsidePool

\* ac_http_pool_init(config) by thread t, under the static init_mutex
ac_http_pool_init(t) ==
    /\ CallerStarts(t)
    /\ \E config \in PoolConfigs :
        IF s_pool.initialized = 1
        THEN \* "already initialized"
             /\ init_ret' = [ret |-> ARC_OK, already |-> TRUE]
             /\ UNCHANGED <<s_pool, mutex>>
        ELSE /\ init_ret' = [ret |-> ARC_OK, already |-> FALSE]
             /\ s_pool' = [ZeroPool EXCEPT
                    !.config = [max_connections |->
                                    IF config.max_connections = 0
                                    THEN HTTP_POOL_DEFAULT_MAX_CONNECTIONS
                                    ELSE config.max_connections,
                                idle_timeout_ms |->
                                    IF config.idle_timeout_ms = 0
                                    THEN HTTP_POOL_DEFAULT_IDLE_TIMEOUT_MS
                                    ELSE config.idle_timeout_ms],
                    !.initialized = 1,
                    !.shutting_down = 0]
             /\ mutex' = [valid |-> TRUE, owner |-> 0]
    /\ UNCHANGED <<th, clients, now, pool_faults>>
    /\ UNCHANGED OutsidePool

\* thread t of the thread table thr moves to pc_, its caller holding client holds_
ThreadIn(thr, t, pc_, holds_) ==
    [thr EXCEPT ![t] = [pc |-> pc_, holds |-> holds_, woke |-> "none"]]

ThreadAt(t, pc_, holds_) == ThreadIn(th, t, pc_, holds_)

\* threads blocked in pthread_cond_timedwait(&s_pool.available, ...)
Waiters(thr) == {u \in Threads : thr[u].pc \in {"acq_wait", "sd_wait"}}

\* a blocked thread u leaves its wait for the given reason and has to retake the mutex
Woken(thr, u, reason) ==
    [thr EXCEPT ![u] = [@ EXCEPT !.pc = IF @ = "acq_wait" THEN "acq_woken" ELSE "sd_woken",
                                 !.woke = reason]]

\* pthread_cond_broadcast(&s_pool.available)
cond_broadcast(thr) ==
    [u \in Threads |-> IF u \in Waiters(thr) THEN Woken(thr, u, "broadcast")[u] ELSE thr[u]]

\* cond_signal with one fault: no blocked thread is woken
cond_signal_lost(thr) == {thr}

\* pthread_cond_signal(&s_pool.available): the thread tables it can leave
cond_signal(thr) ==
    IF Waiters(thr) = {} THEN {thr} ELSE {Woken(thr, u, "signal") : u \in Waiters(thr)}

\* entry i of pool p is handed out (lines 327-331 and 371-376)
EntryTaken(p, i) ==
    [p EXCEPT !.entries[i].in_use = 1,
              !.entries[i].last_used_ms = get_current_time_ms,
              !.active_count = UAdd(@, 1),
              !.pool_hits = @ + 1]

\* ac_http_pool_acquire, line 306: the reads made without the mutex
AcquireBegin(t) ==
    /\ CallerStarts(t)
    /\ th[t].holds = 0
    /\ th' = IF s_pool.initialized = 0 \/ s_pool.shutting_down # 0
             THEN th
             ELSE ThreadAt(t, "acq_lock", 0)
    /\ UNCHANGED <<s_pool, mutex, clients, now, pool_faults>>
    /\ UNCHANGED <<init_ret, OutsidePool>>

\* ac_http_pool_acquire, lines 315-342 and 364: lock, cleanup, pool hit or the way on
AcquireCritical(t) ==
    /\ th[t].pc = "acq_lock"
    /\ \E m \in MutexLocked(t) :
        LET counted == [s_pool EXCEPT !.total_acquires = @ + 1]
            cleaned == cleanup_idle_connections(counted, clients)
            p == cleaned.pool
            i == find_idle_entry(p.entries)
        IN  /\ clients' = cleaned.clients
            /\ IF i # 0
               THEN /\ s_pool' = EntryTaken(p, i)
                    /\ mutex' = [m EXCEPT !.owner = IF @ = t THEN 0 ELSE @]
                    /\ th' = ThreadAt(t, "idle", p.entries[i].client)
               ELSE IF p.total_count < p.config.max_connections
               THEN /\ s_pool' = p
                    /\ mutex' = m
                    /\ th' = ThreadAt(t, "acq_create", 0)
               ELSE /\ s_pool' = [p EXCEPT !.waiting_count = UAdd(@, 1)]
                    /\ mutex' = m
                    /\ th' = ThreadAt(t, "acq_loop", 0)
    /\ pool_faults' = SyncUsed
    /\ UNCHANGED <<now, pool_calls>>
    /\ UNCHANGED <<init_ret, OutsidePool>>

\* ac_http_pool_acquire, lines 344-357: pool miss, entry_create and insertion at the
\* head.  arc_http_client_create may place the client at any address that holds no
\* live client, and fails when there is none (then line 364)
AcquireCreate(t) ==
    /\ th[t].pc = "acq_create"
    /\ LET free == {c \in ClientAddrs : clients[c] # "live"}
       IN  IF free = {}
           THEN /\ s_pool' = [s_pool EXCEPT !.waiting_count = UAdd(@, 1)]
                /\ th' = ThreadAt(t, "acq_loop", 0)
                /\ UNCHANGED <<mutex, clients>>
           ELSE \E c \in free :
                /\ clients' = [clients EXCEPT ![c] = "live"]
                /\ s_pool' = [s_pool EXCEPT
                       !.entries = <<[client |-> c,
                                      last_used_ms |-> get_current_time_ms,
                                      in_use |-> 1]>> \o @,
                       !.total_count = UAdd(@, 1),
                       !.active_count = UAdd(@, 1),
                       !.pool_misses = @ + 1]
                /\ mutex' = MutexUnlocked(t)
                /\ th' = ThreadAt(t, "idle", c)
    /\ UNCHANGED <<now, pool_calls, pool_faults>>
    /\ UNCHANGED <<init_ret, OutsidePool>>

\* ac_http_pool_acquire, lines 366-383 and 395-400: the head of the wait loop
AcquireLoop(t) ==
    /\ th[t].pc = "acq_loop"
    /\ LET i == find_idle_entry(s_pool.entries)
       IN  IF s_pool.shutting_down # 0
           THEN /\ s_pool' = [s_pool EXCEPT !.waiting_count = USub(@, 1)]
                /\ mutex' = MutexUnlocked(t)
                /\ th' = ThreadAt(t, "idle", 0)
           ELSE IF i # 0
           THEN /\ s_pool' = [EntryTaken(s_pool, i) EXCEPT !.waiting_count = USub(@, 1)]
                /\ mutex' = MutexUnlocked(t)
                /\ th' = ThreadAt(t, "idle", s_pool.entries[i].client)
           ELSE /\ mutex' = MutexUnlocked(t)
                /\ th' = ThreadAt(t, "acq_wait", 0)
                /\ UNCHANGED s_pool
    /\ UNCHANGED <<clients, now, pool_calls, pool_faults>>
    /\ UNCHANGED <<init_ret, OutsidePool>>

\* ac_http_pool_acquire, lines 384-393: pthread_cond_timedwait returns with the mutex
AcquireWake(t) ==
    /\ th[t].pc = "acq_woken"
    /\ \E m \in MutexLocked(t) :
        IF th[t].woke = "timeout"
        THEN /\ s_pool' = [s_pool EXCEPT !.waiting_count = USub(@, 1),
                                         !.timeouts = @ + 1]
             /\ mutex' = [m EXCEPT !.owner = IF @ = t THEN 0 ELSE @]
             /\ th' = ThreadAt(t, "idle", 0)
        ELSE /\ mutex' = m
             /\ th' = [th EXCEPT ![t].pc = "acq_loop"]
             /\ UNCHANGED s_pool
    /\ pool_faults' = SyncUsed
    /\ UNCHANGED <<clients, now, pool_calls>>
    /\ UNCHANGED <<init_ret, OutsidePool>>

\* a pthread_cond_timedwait of thread t reaches its deadline
CondTimeout(t) ==
    /\ t \in Waiters(th)
    /\ th' = Woken(th, t, "timeout")
    /\ UNCHANGED <<s_pool, mutex, clients, now, pool_calls, pool_faults>>
    /\ UNCHANGED <<init_ret, OutsidePool>>

\* ac_http_pool_release(client), lines 404-413: the caller gives back the client it
\* holds; the reads made without the mutex, and the destroy after a shutdown
ReleaseBegin(t) ==
    /\ CallerStarts(t)
    /\ th[t].holds # 0
    /\ IF s_pool.initialized = 0
       THEN /\ pool_faults' = [pool_faults EXCEPT
                                  !.double_destroy = @ \/ clients[th[t].holds] # "live"]
            /\ clients' = ClientDestroyed(clients, th[t].holds)
            /\ th' = ThreadAt(t, "idle", 0)
       ELSE /\ th' = ThreadAt(t, "rel_lock", th[t].holds)
            /\ UNCHANGED <<clients, pool_faults>>
    /\ UNCHANGED <<s_pool, mutex, now>>
    /\ UNCHANGED <<init_ret, OutsidePool>>

\* ReleaseCritical with one fault: the entry found is released whether or not it
\* is in use
ReleaseCriticalUnchecked(t) ==
    /\ th[t].pc = "rel_lock"
    /\ MutexLocked(t) # {}
    /\ LET i == find_entry_by_client(s_pool.entries, th[t].holds)
       IN  IF i = 0
           THEN /\ th' = ThreadAt(t, "idle", 0)
                /\ pool_faults' = [SyncUsed EXCEPT !.unheld_release = TRUE]
                /\ UNCHANGED s_pool
           ELSE /\ s_pool' = [s_pool EXCEPT
                       !.entries[i].in_use = 0,
                       !.entries[i].last_used_ms = get_current_time_ms,
                       !.active_count = USub(@, 1)]
                /\ th' \in cond_signal(ThreadAt(t, "idle", 0))
                /\ pool_faults' = [SyncUsed EXCEPT
                       !.unheld_release = @ \/ s_pool.entries[i].in_use = 0]
    /\ UNCHANGED <<mutex, clients, now, pool_calls>>
    /\ UNCHANGED <<init_ret, OutsidePool>>

\* ac_http_pool_release, lines 415-437: the critical section.  The client given
\* is th[t].holds; "releasing unknown client" and "double release detected"
\* return at once
ReleaseCritical(t) ==
    /\ th[t].pc = "rel_lock"
    /\ MutexLocked(t) # {}
    /\ LET i == find_entry_by_client(s_pool.entries, th[t].holds)
       IN  IF i = 0 \/ s_pool.entries[i].in_use = 0
           THEN /\ th' = ThreadAt(t, "idle", 0)
                /\ pool_faults' = [SyncUsed EXCEPT !.unheld_release = TRUE]
                /\ UNCHANGED s_pool
           ELSE /\ s_pool' = [s_pool EXCEPT
                       !.entries[i].in_use = 0,
                       !.entries[i].last_used_ms = get_current_time_ms,
                       !.active_count = USub(@, 1)]
                /\ th' \in cond_signal(ThreadAt(t, "idle", 0))
                /\ pool_faults' = SyncUsed
    /\ UNCHANGED <<mutex, clients, now, pool_calls>>
    /\ UNCHANGED <<init_ret, OutsidePool>>

\* ac_http_pool_release(client), lines 404-413, with a client the caller does not
\* hold: one it has released before, one another caller holds, or one the pool
\* never had
ReleaseUnheld(t) ==
    /\ CallerStarts(t)
    /\ th[t].holds = 0
    /\ \E c \in ClientAddrs :
          IF s_pool.initialized = 0
          THEN /\ pool_faults' = [pool_faults EXCEPT
                                     !.double_destroy = @ \/ clients[c] # "live"]
               /\ clients' = ClientDestroyed(clients, c)
               /\ UNCHANGED th
          ELSE /\ th' = ThreadAt(t, "rel_lock", c)
               /\ UNCHANGED <<clients, pool_faults>>
    /\ UNCHANGED <<s_pool, mutex, now>>
    /\ UNCHANGED <<init_ret, OutsidePool>>

\* every entry of the list goes through entry_destroy (lines 275-281): the client table
RECURSIVE EntriesDestroyed(_, _)
EntriesDestroyed(entries, cl) ==
    IF entries = <<>> THEN cl
    ELSE EntriesDestroyed(Tail(entries), ClientDestroyed(cl, Head(entries).client))

\* lines 275-286 of ac_http_pool_shutdown on thread t: destroy all entries, zero the
\* counts, unlock
ShutdownDestroysEntries(t, m) ==
    /\ pool_faults' = [pool_faults EXCEPT
           !.destroyed_sync_used = @ \/ ~mutex.valid,
           !.double_destroy = @ \/ \E i \in EntryIdx(s_pool.entries) :
                                       clients[s_pool.entries[i].client] # "live"]
    /\ clients' = EntriesDestroyed(s_pool.entries, clients)
    /\ s_pool' = [s_pool EXCEPT !.shutting_down = 1,
                                !.entries = <<>>,
                                !.total_count = 0,
                                !.active_count = 0]
    /\ mutex' = [m EXCEPT !.owner = IF @ = t THEN 0 ELSE @]

\* ac_http_pool_shutdown, line 247: the read made without the mutex
ShutdownBegin(t) ==
    /\ CallerStarts(t)
    /\ th' = IF s_pool.initialized = 0 THEN th ELSE ThreadAt(t, "sd_lock", th[t].holds)
    /\ UNCHANGED <<s_pool, mutex, clients, now, pool_faults>>
    /\ UNCHANGED <<init_ret, OutsidePool>>

\* ac_http_pool_shutdown, lines 253-286: lock, shutting_down, broadcast, then either
\* the wait for the clients still out or the destruction of the entries
ShutdownCritical(t) ==
    /\ th[t].pc = "sd_lock"
    /\ \E m \in MutexLocked(t) :
        IF s_pool.active_count > 0
        THEN /\ s_pool' = [s_pool EXCEPT !.shutting_down = 1]
             /\ mutex' = [m EXCEPT !.owner = IF @ = t THEN 0 ELSE @]
             /\ th' = ThreadIn(cond_broadcast(th), t, "sd_wait", th[t].holds)
             /\ pool_faults' = SyncUsed
             /\ UNCHANGED clients
        ELSE /\ ShutdownDestroysEntries(t, m)
             /\ th' = ThreadIn(cond_broadcast(th), t, "sd_sync", th[t].holds)
    /\ UNCHANGED <<now, pool_calls>>
    /\ UNCHANGED <<init_ret, OutsidePool>>

\* ac_http_pool_shutdown, lines 264-286: pthread_cond_timedwait returns with the mutex;
\* on ETIMEDOUT, or with no client out, the entries are destroyed
ShutdownWake(t) ==
    /\ th[t].pc = "sd_woken"
    /\ \E m \in MutexLocked(t) :
        IF th[t].woke # "timeout" /\ s_pool.active_count > 0
        THEN /\ mutex' = [m EXCEPT !.owner = IF @ = t THEN 0 ELSE @]
             /\ th' = ThreadAt(t, "sd_wait", th[t].holds)
             /\ pool_faults' = SyncUsed
             /\ UNCHANGED <<s_pool, clients>>
        ELSE /\ ShutdownDestroysEntries(t, m)
             /\ th' = ThreadAt(t, "sd_sync", th[t].holds)
    /\ UNCHANGED <<now, pool_calls>>
    /\ UNCHANGED <<init_ret, OutsidePool>>

\* ac_http_pool_shutdown, lines 289-298: the mutex and the condition variable are
\* destroyed, then initialized is cleared
ShutdownDestroySync(t) ==
    /\ th[t].pc = "sd_sync"
    /\ mutex' \in IF mutex.owner = 0
                  THEN {[mutex EXCEPT !.valid = FALSE]}
                  ELSE {mutex, [mutex EXCEPT !.valid = FALSE]}
    /\ s_pool' = [s_pool EXCEPT !.initialized = 0]
    /\ th' = ThreadAt(t, "idle", th[t].holds)
    /\ pool_faults' = [pool_faults EXCEPT !.locked_sync_destroyed = @ \/ mutex.owner # 0]
    /\ UNCHANGED <<clients, now, pool_calls>>
    /\ UNCHANGED <<init_ret, OutsidePool>>

\* time passes
Tick ==
    /\ \E s \in ClockStarts : s <= now /\ now < s + MaxTicks
    /\ now' = now + 1
    /\ UNCHANGED <<s_pool, mutex, th, clients, pool_calls, pool_faults>>
    /\ UNCHANGED <<init_ret, OutsidePool>>

NextPool ==
    \/ \E t \in Threads :
        \/ ac_http_pool_init(t)
        \/ AcquireBegin(t)
        \/ AcquireCritical(t)
        \/ AcquireCreate(t)
        \/ AcquireLoop(t)
        \/ AcquireWake(t)
        \/ CondTimeout(t)
        \/ ReleaseBegin(t)
        \/ ReleaseCritical(t)
        \/ ShutdownBegin(t)
        \/ ShutdownCritical(t)
        \/ ShutdownWake(t)
        \/ ShutdownDestroySync(t)
    \/ Tick

SpecPool == InitPool /\ [][NextPool]_vars

\* acquire and release calls alone, the releases of clients not held included
NextPoolRelease ==
    \/ \E t \in Threads :
        \/ ac_http_pool_init(t)
        \/ AcquireBegin(t)
        \/ AcquireCritical(t)
        \/ AcquireCreate(t)
        \/ AcquireLoop(t)
        \/ AcquireWake(t)
        \/ CondTimeout(t)
        \/ ReleaseBegin(t)
        \/ ReleaseUnheld(t)
        \/ ReleaseCritical(t)
    \/ Tick

SpecPoolRelease == InitPool /\ [][NextPoolRelease]_vars

\* the entries marked in use, and the idle ones
ActiveEntries == {i \in EntryIdx(s_pool.entries) : s_pool.entries[i].in_use # 0}
IdleEntries == {i \in EntryIdx(s_pool.entries) : s_pool.entries[i].in_use = 0}

\* C3 as stated: whenever the pool mutex is free, the pool satisfies total = active +
\* idle and active + idle <= max_connections, where active is the number of entries
\* marked in use (and idle the number of the others), over any interleaving of init,
\* acquire, release and shutdown.
C3_Original ==
    mutex.owner = 0
        => /\ s_pool.total_count = Cardinality(ActiveEntries) + Cardinality(IdleEntries)
           /\ Cardinality(ActiveEntries) + Cardinality(IdleEntries)
                  <= s_pool.config.max_connections

\* the threads whose caller holds client c: acquire has returned c to it and it has not
\* released it
Holders(c) == {t \in Threads : th[t].pc = "idle" /\ th[t].holds = c}

\* C5 as stated: between the moment acquire returns a client to a thread and the moment
\* that thread releases it, no other acquire returns the same client; with
\* max_connections = 1 at most one thread holds a pooled client at any time.
C5_Original ==
    /\ \A c \in ClientAddrs : Cardinality(Holders(c)) <= 1
    /\ (s_pool.initialized = 1 /\ s_pool.config.max_connections = 1)
           => Cardinality({t \in Threads : th[t].pc = "idle" /\ th[t].holds # 0}) <= 1

\* the queue q without its entry i
WithoutEntry(q, i) == SubSeq(q, 1, i - 1) \o SubSeq(q, i + 1, Len(q))

\* sse_request leaves its polling loop in this step
PollReturns == mcp_pc = "waiting" /\ mcp_pc' = "idle"

\* C11 as stated: on the SSE transport, with responses of several requests arriving in
\* any order, a caller waiting for id X is given the response with id X once it has been
\* queued and before the caller's timeout, and removing it leaves every other queued
\* response in the queue in arrival order.
C11_OriginalStep ==
    (PollReturns /\ \E i \in DOMAIN sse.responses : sse.responses[i].id = mcp_client.request_id)
        => /\ mcp_result'.via = "queue"
           /\ mcp_result'.err # AGENTC_ERR_TIMEOUT
           /\ mcp_result'.response_id = mcp_client.request_id
           /\ \E i \in DOMAIN sse.responses :
                 /\ sse.responses[i].id = mcp_client.request_id
                 /\ sse'.responses = WithoutEntry(sse.responses, i)

C11_Original == [][C11_OriginalStep]_vars

\* ids of the queued responses
QueuedIds == {sse.responses[i].id : i \in DOMAIN sse.responses}

\* sse_on_event receives a response in this step while the queue is full
ArrivesWhileFull ==
    sse_events' # sse_events /\ Len(sse.responses) = SSE_MAX_PENDING_RESPONSES

\* sse_request returns in this step to a caller whose response was dropped and has no
\* other response with its id in the queue
ReturnsAfterDrop ==
    /\ PollReturns
    /\ mcp_client.request_id \in sse_dropped
    /\ mcp_client.request_id \notin QueuedIds

\* C12 as stated: the SSE pending-response queue never holds more than 16 entries; a
\* response that arrives while 16 are queued is dropped without changing the queued
\* entries, and the caller waiting for the dropped response's id returns timeout.
C12_Original ==
    /\ [](Len(sse.responses) <= SSE_MAX_PENDING_RESPONSES)
    /\ [][ArrivesWhileFull => sse' = sse]_vars
    /\ [][ReturnsAfterDrop => mcp_result'.err = AGENTC_ERR_TIMEOUT]_vars

\* C12, amended: the queue never holds more than 16 entries, a response that arrives
\* while 16 are queued is dropped without changing the queued entries, and the caller
\* waiting for the dropped response's id (no other response with that id being queued)
\* is not given a response: its request returns timeout, or not-connected when the
\* reader thread has lost its connection before the timeout.
C12_FullQueueDrops ==
    /\ [](Len(sse.responses) <= SSE_MAX_PENDING_RESPONSES)
    /\ [][ArrivesWhileFull => sse' = sse]_vars
    /\ [][ReturnsAfterDrop =>
            /\ mcp_result'.err \in {AGENTC_ERR_TIMEOUT, AGENTC_ERR_NOT_CONNECTED}
            /\ mcp_result'.err = AGENTC_ERR_NOT_CONNECTED => sse.sse_connected < 0
            /\ sse' = sse]_vars

\* the response of the waiting caller was dropped by a full queue and the caller has
\* returned timeout
C12_Witness ==
    /\ mcp_pc = "idle"
    /\ mcp_result.err = AGENTC_ERR_TIMEOUT
    /\ mcp_result.request_id # 0
    /\ mcp_result.request_id \in sse_dropped
    /\ Len(sse.responses) = SSE_MAX_PENDING_RESPONSES

\* thread t was blocked in acquire when shutdown broadcast, and has not left the wait
\* loop since
WokenByShutdown(t) ==
    th[t].woke = "broadcast" /\ th[t].pc \in {"acq_woken", "acq_loop"}

\* the threads inside the wait section of acquire (lines 364-398)
InAcquireWait == {t \in Threads : th[t].pc \in {"acq_loop", "acq_wait", "acq_woken"}}

\* C13 as stated: when shutdown is called while threads are blocked in acquire, every
\* one of them is woken and returns failure (no client), none of them stays blocked
\* until its own deadline, and the waiting count returns to zero.
C13_OriginalStep ==
    \A t \in Threads :
        (WokenByShutdown(t) /\ th'[t] # th[t])
            => \/ th'[t].pc = "acq_loop"
               \/ th'[t].pc = "idle" /\ th'[t].holds = 0

C13_Original ==
    /\ [][C13_OriginalStep]_vars
    /\ []((InAcquireWait = {} /\ \A t \in Threads : th[t].pc = "idle")
             => s_pool.waiting_count = 0)

\* thread t takes a step inside ac_http_pool_acquire, after its unlocked check
AcquireStep(t) ==
    /\ th[t].pc \in {"acq_lock", "acq_create", "acq_loop", "acq_woken"}
    /\ th'[t] # th[t]

\* the three counters of ac_http_pool_stats_t the claim is about
AcquireStats(p) == <<p.pool_hits, p.pool_misses, p.timeouts>>

\* thread t holds the pool mutex while it makes the step: it owned it before, or it
\* takes the live, free mutex in the step
HoldsMutexIn(t) ==
    /\ mutex.valid
    /\ \/ mutex.owner = t
       \/ mutex.owner = 0 /\ th[t].pc \in {"acq_lock", "acq_woken"}

\* C14 as stated: each acquire call that returns a client increments exactly one of
\* pool_hits and pool_misses, never both and never neither; each acquire call whose
\* wait expires returns no client and increments timeouts exactly once; all these
\* updates happen while the pool mutex is held.
C14_OriginalStep ==
    \A t \in Threads :
        AcquireStep(t) =>
            /\ (th'[t].pc = "idle" /\ th'[t].holds # 0)
                   => \/ /\ s_pool'.pool_hits = s_pool.pool_hits + 1
                         /\ s_pool'.pool_misses = s_pool.pool_misses
                      \/ /\ s_pool'.pool_hits = s_pool.pool_hits
                         /\ s_pool'.pool_misses = s_pool.pool_misses + 1
            /\ (th[t].pc = "acq_woken" /\ th[t].woke = "timeout")
                   => /\ th'[t].pc = "idle" /\ th'[t].holds = 0
                      /\ s_pool'.timeouts = s_pool.timeouts + 1
                      /\ s_pool'.pool_hits = s_pool.pool_hits
                      /\ s_pool'.pool_misses = s_pool.pool_misses
            /\ AcquireStats(s_pool') # AcquireStats(s_pool) => HoldsMutexIn(t)

C14_Original == [][C14_OriginalStep]_vars

(***************************************************************************)
(* The tool registry on its own (src/src/tool.c): one registry, any        *)
(* sequence of agentc_tool_register calls.                                  *)
(***************************************************************************)

\* names are compared with strcmp: "calc" and "Calc" are different names
RegisterNames == {"calc", "Calc", "echo", NULL}

RegisterHandlers == {"handler_a", "handler_b", NULL}

\* the tool argument: a NULL pointer, or a tool whose name or handler may be NULL
RegisterTools ==
    {NoTool} \cup [given : {TRUE}, name : RegisterNames, handler : RegisterHandlers]

\* the copy the registry keeps of a tool
ToolCopy(tool) == [name |-> tool.name, handler |-> tool.handler]

\* the names of the list, in list order
RegisteredNames(reg) == [i \in DOMAIN reg.tools |-> reg.tools[i].name]

InitRegistry ==
    /\ AgentUnused
    /\ SessionUnused
    /\ McpUnused
    /\ PoolUnused
    /\ LateUnused
    /\ LibUnused

OutsideRegistry ==
    <<agent_vars, session_vars, mcp_vars, pool_vars,
      s_providers, s_providers_initialized, provider_call, s_arena, arena_log,
      tool_call, sse_sync, sse_accesses, late_vars>>

\* agentc_tool_register without the duplicate check
agentc_tool_register_unchecked(registry_given, tool) ==
    /\ register_tool' = tool
    /\ IF ~registry_given \/ ~tool.given \/ tool.name = NULL \/ tool.handler = NULL
       THEN /\ register_ret' = AGENTC_ERR_INVALID_ARG
            /\ UNCHANGED tool_registry
       ELSE /\ tool_registry' = [tools |-> Append(tool_registry.tools, ToolCopy(tool)),
                                 count |-> tool_registry.count + 1]
            /\ register_ret' = AGENTC_OK
    /\ UNCHANGED OutsideRegistry

agentc_tool_register(registry_given, tool) ==
    /\ register_tool' = tool
    /\ IF ~registry_given \/ ~tool.given \/ tool.name = NULL \/ tool.handler = NULL
       THEN /\ register_ret' = AGENTC_ERR_INVALID_ARG
            /\ UNCHANGED tool_registry
       ELSE IF agentc_tool_get(RegisteredNames(tool_registry), tool.name)
       THEN \* "already registered, skipping"
            /\ register_ret' = AGENTC_ERR_INVALID_ARG
            /\ UNCHANGED tool_registry
       ELSE \* the copy is appended at the tail
            /\ tool_registry' = [tools |-> Append(tool_registry.tools, ToolCopy(tool)),
                                 count |-> tool_registry.count + 1]
            /\ register_ret' = AGENTC_OK
    /\ UNCHANGED OutsideRegistry

agentc_tool_count(reg) == reg.count

NextRegistry ==
    \E registry_given \in BOOLEAN, tool \in RegisterTools :
        agentc_tool_register(registry_given, tool)

SpecRegistry == InitRegistry /\ [][NextRegistry]_vars

(***************************************************************************)
(* Properties of the tool registry.                                        *)
(***************************************************************************)

NoTwoEntriesShareAName ==
    \A i, j \in DOMAIN tool_registry.tools :
        tool_registry.tools[i].name = tool_registry.tools[j].name => i = j

\* the latest register call named a tool that was already in the list
RegistersPresentName ==
    /\ register_tool'.given
    /\ register_tool'.name \in Range(RegisteredNames(tool_registry))
    /\ <<register_tool', register_ret', tool_registry'>>
           # <<register_tool, register_ret, tool_registry>>

\* C15: after any sequence of register calls no two entries of the registry
\* have the same name and the count is the number of entries; a register call
\* whose name is already present fails and leaves the entries, their order and
\* the count as they were.
C15_RegistryNamesUnique ==
    /\ [](NoTwoEntriesShareAName
          /\ agentc_tool_count(tool_registry) = Len(tool_registry.tools))
    /\ [][RegistersPresentName =>
            /\ register_ret' # AGENTC_OK
            /\ tool_registry' = tool_registry]_vars

\* a tool with a handler, whose name is already the first of three registered
\* names, was offered and refused
C15_Witness ==
    /\ Len(tool_registry.tools) = 3
    /\ register_tool.given
    /\ register_tool.handler # NULL
    /\ register_tool.name = tool_registry.tools[1].name
    /\ register_tool.handler # tool_registry.tools[1].handler
    /\ register_ret = AGENTC_ERR_INVALID_ARG

(***************************************************************************)
(* The LLM provider table (src/libs/ac_core/src/llm/llm.c, lines 136-239): *)
(* a static array of MAX_PROVIDERS entries and its count.                  *)
(***************************************************************************)
MAX_PROVIDERS == 32

\* names a caller registers or asks for; "" is a string that is set but empty
ProviderNames == {"openai", "kimi", "", NULL}

ProviderOps == {"openai_ops", "custom_ops", NULL}

\* the name of the i-th provider a plugin registered before the calls of interest
RECURSIVE PluginName(_)
PluginName(i) == IF i = 0 THEN "plugin" ELSE PluginName(i - 1) \o "+"

PluginProviders(n) == [i \in 1..n |-> [name |-> PluginName(i), ops |-> "plugin_ops"]]

s_provider_count == Len(s_providers)

OutsideProviders ==
    <<agent_vars, session_vars, mcp_vars, pool_vars,
      tool_registry, register_ret, register_tool, s_arena, arena_log, tool_call, sse_sync, sse_accesses, late_vars>>

InitProviders ==
    /\ AgentUnused
    /\ SessionUnused
    /\ McpUnused
    /\ PoolUnused
    /\ LateUnused
    /\ RegistryUnused
    /\ ArenaUnused
    /\ CallToolUnused
    /\ SseSyncUnused
    /\ \E n \in {0, PriorProviders} : s_providers = PluginProviders(n)
    /\ s_providers_initialized = 0
    /\ provider_call = NoProviderCall

\* the index of the first entry of that name (strcmp), 0 if there is none
FirstNamed(table, name) ==
    LET named == {i \in DOMAIN table : table[i].name = name} IN
    IF named = {} THEN 0 ELSE CHOOSE i \in named : \A j \in named : i <= j

\* ac_llm_register_provider with one fault: a name that is already registered
\* has its operations table replaced
RegisterReplacing(table, name, ops) ==
    IF name = NULL \/ ops = NULL \/ Len(table) >= MAX_PROVIDERS
    THEN table
    ELSE IF FirstNamed(table, name) # 0
    THEN [table EXCEPT ![FirstNamed(table, name)].ops = ops]
    ELSE Append(table, [name |-> name, ops |-> ops])

\* ac_llm_register_provider: the table after the call
Register(table, name, ops) ==
    IF name = NULL \/ ops = NULL \/ Len(table) >= MAX_PROVIDERS
    THEN table
    ELSE IF FirstNamed(table, name) # 0
    THEN table      \* "already registered, skipping"
    ELSE Append(table, [name |-> name, ops |-> ops])

ac_llm_register_provider(name, ops) ==
    /\ s_providers' = Register(s_providers, name, ops)
    /\ provider_call' = [NoProviderCall EXCEPT !.op = "register", !.given = TRUE,
                                                !.name = name, !.ops = ops]
    /\ UNCHANGED s_providers_initialized
    /\ UNCHANGED OutsideProviders

\* ac_llm_find_provider_by_name on a table: the operations of the first entry
\* of that name, NULL if there is none
FindByName(table, name) ==
    LET i == IF name = NULL THEN 0 ELSE FirstNamed(table, name) IN
    IF i = 0 THEN NULL ELSE table[i].ops

ac_llm_find_provider_by_name(name) == FindByName(s_providers, name)

\* ac_llm_init_builtin_providers: the table after the call
WithBuiltinProviders(table) ==
    IF s_providers_initialized # 0
    THEN table
    ELSE Register(Register(table, "openai", "openai_ops"), "anthropic", "anthropic_ops")

\* the params argument: a NULL pointer, or params whose compatible and provider
\* may each be NULL, empty or a name
ProviderParams ==
    {[given |-> FALSE, compatible |-> NULL, provider |-> NULL]}
        \cup [given : {TRUE}, compatible : ProviderNames, provider : ProviderNames]

IsSet(str) == str # NULL /\ str # ""

\* ac_llm_find_provider with one fault: the explicit provider is tried first
FindProviderExplicitFirst(table, params) ==
    IF IsSet(params.provider) /\ FindByName(table, params.provider) # NULL
    THEN FindByName(table, params.provider)
    ELSE IF IsSet(params.compatible) /\ FindByName(table, params.compatible) # NULL
    THEN FindByName(table, params.compatible)
    ELSE NULL

\* the two strategies of ac_llm_find_provider, lines 219-238, on a table
FindProvider(table, params) ==
    IF IsSet(params.compatible) /\ FindByName(table, params.compatible) # NULL
    THEN FindByName(table, params.compatible)
    ELSE IF IsSet(params.provider) /\ FindByName(table, params.provider) # NULL
    THEN FindByName(table, params.provider)
    ELSE NULL

ac_llm_find_provider(params) ==
    /\ IF ~params.given
       THEN /\ provider_call' = [NoProviderCall EXCEPT !.op = "find"]
            /\ UNCHANGED <<s_providers, s_providers_initialized>>
       ELSE /\ s_providers' = WithBuiltinProviders(s_providers)
            /\ s_providers_initialized' = 1
            /\ provider_call' =
                  [NoProviderCall EXCEPT
                      !.op = "find", !.given = TRUE,
                      !.compatible = params.compatible,
                      !.provider = params.provider,
                      !.ret = FindProvider(WithBuiltinProviders(s_providers), params)]
    /\ UNCHANGED OutsideProviders

NextProviders ==
    \/ \E name \in ProviderNames, ops \in ProviderOps : ac_llm_register_provider(name, ops)
    \/ \E params \in ProviderParams : ac_llm_find_provider(params)

SpecProviders == InitProviders /\ [][NextProviders]_vars

(***************************************************************************)
(* Properties of the provider table.                                       *)
(***************************************************************************)
RegisteredProviderNames == {s_providers[i].name : i \in DOMAIN s_providers}

\* a register call that names a provider already in the table
RegistersPresentProvider ==
    /\ provider_call'.op = "register"
    /\ provider_call'.ops # NULL
    /\ provider_call'.name \in RegisteredProviderNames

\* C17: registering a provider under a name that is already registered is a
\* no-op: the lookup of every registered name keeps returning the operations
\* table of its first registration, whatever is registered afterwards, and a
\* registration under a present name leaves the number of providers unchanged.
C17_FirstRegistrationStands ==
    /\ [][\A name \in RegisteredProviderNames :
             FindByName(s_providers', name) = ac_llm_find_provider_by_name(name)]_vars
    /\ [][RegistersPresentProvider =>
             /\ Len(s_providers') = s_provider_count
             /\ s_providers' = s_providers]_vars

\* "openai" was registered by the caller with its own operations, registered
\* again with others, and the built-in registration came later still
C17_Witness ==
    /\ provider_call.op = "register"
    /\ provider_call.name = "openai"
    /\ provider_call.ops = "openai_ops"
    /\ s_providers_initialized = 1
    /\ ac_llm_find_provider_by_name("openai") = "custom_ops"
    /\ ac_llm_find_provider_by_name("anthropic") = "anthropic_ops"

\* the operations registered under a name, as a set: empty when the name is
\* not in the table
OpsRegisteredUnder(name) ==
    {s_providers[i].ops : i \in {j \in DOMAIN s_providers : s_providers[j].name = name}}

\* the latest call was a lookup with params
LookedUp == provider_call.op = "find" /\ provider_call.given

\* C18 as stated: if compatible is set, the provider registered under the
\* compatible name is chosen; otherwise, if provider is set, the provider
\* registered under that name is chosen; otherwise the lookup fails.  A name is
\* taken to be set when it is neither NULL nor empty, and the lookup of a name
\* that is not registered to choose nothing.
C18_Original ==
    LookedUp =>
        IF IsSet(provider_call.compatible)
        THEN \/ provider_call.ret \in OpsRegisteredUnder(provider_call.compatible)
             \/ /\ OpsRegisteredUnder(provider_call.compatible) = {}
                /\ provider_call.ret = NULL
        ELSE IF IsSet(provider_call.provider)
        THEN \/ provider_call.ret \in OpsRegisteredUnder(provider_call.provider)
             \/ /\ OpsRegisteredUnder(provider_call.provider) = {}
                /\ provider_call.ret = NULL
        ELSE provider_call.ret = NULL

\* C18 amended: if compatible is set (not NULL, not empty) and a provider is
\* registered under it, that provider is chosen; otherwise, if provider is set
\* and a provider is registered under it, that one is chosen; otherwise the
\* lookup fails.
C18_LookupOrder ==
    LookedUp =>
        LET byCompatible == IF IsSet(provider_call.compatible)
                            THEN OpsRegisteredUnder(provider_call.compatible) ELSE {}
            byProvider == IF IsSet(provider_call.provider)
                          THEN OpsRegisteredUnder(provider_call.provider) ELSE {}
        IN  /\ byCompatible # {} => provider_call.ret \in byCompatible
            /\ (byCompatible = {} /\ byProvider # {}) => provider_call.ret \in byProvider
            /\ (byCompatible = {} /\ byProvider = {}) => provider_call.ret = NULL
            /\ Cardinality(byCompatible) <= 1
            /\ Cardinality(byProvider) <= 1

\* both names are set and registered with different operations, and the
\* compatible one was chosen
C18_Witness ==
    /\ LookedUp
    /\ provider_call.compatible = "kimi"
    /\ provider_call.provider = "openai"
    /\ OpsRegisteredUnder("kimi") = {"custom_ops"}
    /\ OpsRegisteredUnder("openai") = {"openai_ops"}
    /\ provider_call.ret = "custom_ops"

(***************************************************************************)
(* Properties of closing a session.                                        *)
(***************************************************************************)
Reverse(q) == [i \in 1..Len(q) |-> q[Len(q) + 1 - i]]

\* the entries of the agents array whose agent has not been destroyed yet, in
\* order of creation: the latest entry of every address the caller still holds
RECURSIVE LiveAgents(_, _)
LiveAgents(agents, i) ==
    IF i > Len(agents) THEN <<>>
    ELSE IF /\ agents[i] \in handles
            /\ \A j \in (i + 1)..Len(agents) : agents[j] # agents[i]
    THEN <<agents[i]>> \o LiveAgents(agents, i + 1)
    ELSE LiveAgents(agents, i + 1)

ClosesSession == session.state = "open" /\ session'.state = "closed"

\* the agents ac_session_close destroyed in this step, in the order it did
DestroyedByClose ==
    [i \in 1..(Len(destroy_log') - Len(destroy_log)) |->
        destroy_log'[Len(destroy_log) + i].agent]

\* C19 as stated: closing a session destroys every agent created in it exactly
\* once, in reverse order of creation, and only afterwards releases the
\* session's own storage: the destructions the close performs are those of the
\* agents not destroyed before, latest created first.
C19_Original ==
    [][ClosesSession =>
          DestroyedByClose = Reverse(LiveAgents(session.agents, 1))]_vars

(***************************************************************************)
(* The arena (src/libs/ac_core/src/arena.c).  size_t is SizeBits wide and  *)
(* its arithmetic wraps; offsets are into data[].                          *)
(***************************************************************************)
SizeModulus == 2 ^ SizeBits

SIZE_MAX == SizeModulus - 1

\* the sizes a caller asks for: every size_t value
AllocSizes == 0..SIZE_MAX

\* arena_create(capacity)
ArenaCapacities == {0, 5, 8}

OutsideArena ==
    <<agent_vars, session_vars, mcp_vars, pool_vars,
      tool_registry, register_ret, register_tool,
      s_providers, s_providers_initialized, provider_call, tool_call, sse_sync, sse_accesses, late_vars>>

InitArena ==
    /\ AgentUnused
    /\ SessionUnused
    /\ McpUnused
    /\ PoolUnused
    /\ LateUnused
    /\ RegistryUnused
    /\ ProvidersUnused
    /\ CallToolUnused
    /\ SseSyncUnused
    /\ \E capacity \in ArenaCapacities : s_arena = [capacity |-> capacity, count |-> 0]
    /\ arena_log = [regions |-> <<>>, latest |-> NoAlloc, calls |-> 0]

\* the test of arena_alloc, line 38: the sum is a size_t
Fits(a, size) == (a.count + size) % SizeModulus <= a.capacity

arena_alloc(size) ==
    /\ arena_log.calls < MaxAllocs
    /\ IF ~Fits(s_arena, size)
       THEN /\ UNCHANGED s_arena
            /\ arena_log' = [arena_log EXCEPT
                                !.latest = [size |-> size, before |-> s_arena.count,
                                            offset |-> -1, called |-> TRUE],
                                !.calls = @ + 1]
       ELSE /\ s_arena' = [s_arena EXCEPT !.count = (@ + size) % SizeModulus]
            /\ arena_log' = [regions |-> Append(arena_log.regions,
                                                [offset |-> s_arena.count, size |-> size]),
                             latest |-> [size |-> size, before |-> s_arena.count,
                                         offset |-> s_arena.count, called |-> TRUE],
                             calls |-> arena_log.calls + 1]
    /\ UNCHANGED OutsideArena

arena_reset ==
    /\ arena_log.calls < MaxAllocs
    /\ s_arena' = [s_arena EXCEPT !.count = 0]
    /\ arena_log' = [regions |-> <<>>, latest |-> NoAlloc, calls |-> arena_log.calls + 1]
    /\ UNCHANGED OutsideArena

NextArena ==
    \/ \E size \in AllocSizes : arena_alloc(size)
    \/ arena_reset

SpecArena == InitArena /\ [][NextArena]_vars

(***************************************************************************)
(* Properties of the arena.                                                *)
(***************************************************************************)
InsideStorage(r) == r.offset + r.size <= s_arena.capacity

Overlap(r1, r2) ==
    /\ r1.size > 0
    /\ r2.size > 0
    /\ r1.offset < r2.offset + r2.size
    /\ r2.offset < r1.offset + r1.size

\* C20 as stated: for any sequence of arena_alloc calls with any sizes, sizes
\* close to SIZE_MAX included, the call fails exactly when the size exceeds the
\* capacity minus the bytes already handed out, and then leaves the arena as it
\* was; otherwise the region returned lies entirely inside the arena's storage
\* and overlaps no region returned since creation or the last reset.
C20_Original ==
    /\ arena_log.latest.called =>
          /\ (arena_log.latest.offset = -1)
                <=> (arena_log.latest.size > s_arena.capacity - arena_log.latest.before)
          /\ arena_log.latest.offset = -1 => s_arena.count = arena_log.latest.before
    /\ \A i \in DOMAIN arena_log.regions : InsideStorage(arena_log.regions[i])
    /\ \A i, j \in DOMAIN arena_log.regions :
          i # j => ~Overlap(arena_log.regions[i], arena_log.regions[j])

(***************************************************************************)
(* Properties of the request ids of one MCP client.                        *)
(***************************************************************************)

\* the positions of mcp_sent that hold requests
RequestsSent == {i \in DOMAIN mcp_sent : mcp_sent[i].method = "request"}

\* C21: the request id of an MCP client is a counter that starts at 0 and is
\* incremented before each request that is not a notification: the first
\* request carries id 1, successive requests carry strictly increasing ids, no
\* two requests share an id, and notifications carry no id and leave the
\* counter where it was (the counter is the number of requests sent).
C21_RequestIds ==
    /\ mcp_client.request_id = Cardinality(RequestsSent)
    /\ \A i \in DOMAIN mcp_sent :
          IF i \in RequestsSent
          THEN /\ mcp_sent[i].has_id
               /\ mcp_sent[i].id = Cardinality({j \in RequestsSent : j <= i})
          ELSE ~mcp_sent[i].has_id
    /\ \A i, j \in RequestsSent : i < j => mcp_sent[i].id < mcp_sent[j].id

\* a request, the notification, and two more requests
C21_Witness ==
    /\ Len(mcp_sent) = 4
    /\ mcp_sent[1].has_id /\ mcp_sent[1].id = 1
    /\ ~mcp_sent[2].has_id
    /\ mcp_sent[3].has_id /\ mcp_sent[3].id = 2
    /\ mcp_sent[4].has_id /\ mcp_sent[4].id = 3
    /\ mcp_client.request_id = 3

(***************************************************************************)
(* Properties of ac_http_pool_init.                                        *)
(***************************************************************************)

\* C22: pool init is idempotent and the first call wins: a call of
\* ac_http_pool_init on a pool that is initialized, by any thread and with any
\* configuration, while other threads are inside other pool calls or not,
\* returns success and leaves the configuration, the entries, the counters and
\* the statistics (all of s_pool), the mutex and the clients as they were.
C22_InitFirstWins ==
    [][\A t \in Threads :
          (s_pool.initialized = 1 /\ ac_http_pool_init(t)) =>
              /\ init_ret'.ret = ARC_OK
              /\ init_ret'.already
              /\ s_pool' = s_pool
              /\ mutex' = mutex
              /\ clients' = clients
              /\ th' = th]_vars

\* the latest init found the pool initialized, with a connection in the pool,
\* a client out, a non-default configuration and another thread inside acquire
C22_Witness ==
    /\ init_ret = [ret |-> ARC_OK, already |-> TRUE]
    /\ s_pool.initialized = 1
    /\ s_pool.total_count >= 1
    /\ s_pool.active_count >= 1
    /\ s_pool.total_acquires >= 1
    /\ s_pool.config.max_connections # HTTP_POOL_DEFAULT_MAX_CONNECTIONS
    /\ \E t \in Threads : th[t].pc # "idle"

(***************************************************************************)
(* ac_mcp_call_tool (src/libs/ac_core/src/mcp/mcp.c, lines 558-667): what  *)
(* it makes of the result of the tools/call request.  A JSON text is       *)
(* modelled by the JSON value it denotes.                                  *)
(***************************************************************************)

\* "type" of a content item: NULL when the member is absent or not a string
ItemTypes == {"text", "image", NULL}

\* "text" of a content item: NULL when the member is absent or not a string
ItemTexts == {"a", "", "bc", NULL}

ContentItems == [type : ItemTypes, text : ItemTexts]

\* the result member of the response: "content" is absent, is not an array, or
\* is an array of items
ToolResults ==
    [content_kind : {"missing", "not_array"}, content : {<<>>}]
        \cup [content_kind : {"array"}, content : SeqsUpTo(ContentItems, MaxContentItems)]

NoToolResult == [content_kind |-> "missing", content |-> <<>>]

\* *result_out: NULL, an error object, {"result":null}, {"result":"<text>"},
\* or the printed result object
NoOutput == [kind |-> "NULL", text |-> NULL, object |-> NoToolResult]

ErrorOutput == [kind |-> "error", text |-> NULL, object |-> NoToolResult]

ResultNull == [kind |-> "result_null", text |-> NULL, object |-> NoToolResult]

ResultText(text) == [kind |-> "result_text", text |-> text, object |-> NoToolResult]

PrintUnformatted(res) == [kind |-> "object", text |-> NULL, object |-> res]

InitCallTool ==
    /\ AgentUnused
    /\ SessionUnused
    /\ McpUnused
    /\ PoolUnused
    /\ LateUnused
    /\ RegistryUnused
    /\ ProvidersUnused
    /\ ArenaUnused
    /\ SseSyncUnused
    /\ \E connected \in BOOLEAN, err \in {AGENTC_OK, AGENTC_ERR_TIMEOUT},
          res \in ToolResults :
          tool_call = [stage |-> "called", connected |-> connected, rpc_err |-> err,
                       result |-> res, ret |-> "none", out |-> NoOutput]

OutsideCallTool ==
    <<agent_vars, session_vars, mcp_vars, pool_vars,
      tool_registry, register_ret, register_tool,
      s_providers, s_providers_initialized, provider_call, s_arena, arena_log,
      sse_sync, sse_accesses, late_vars>>

\* the test both loops of ac_mcp_call_tool apply to an item
IsTextItem(item) == item.type # NULL /\ item.type = "text" /\ item.text # NULL

\* the first loop, lines 609-619: total_len after items i..Len(content)
RECURSIVE TotalLenFrom(_, _, _)
TotalLenFrom(content, i, total_len) ==
    IF i > Len(content) THEN total_len
    ELSE TotalLenFrom(content, i + 1,
                      IF IsTextItem(content[i])
                      THEN total_len + Len(content[i].text) + 1
                      ELSE total_len)

\* the second loop with one fault: the newline is written before every text
RECURSIVE ConcatNewlineFirst(_, _, _)
ConcatNewlineFirst(content, i, st) ==
    IF i > Len(content) THEN st.buf
    ELSE ConcatNewlineFirst(content, i + 1,
                            IF IsTextItem(content[i])
                            THEN [buf |-> st.buf \o "\n" \o content[i].text, first |-> 0]
                            ELSE st)

\* the second loop, lines 633-646: text_result after items i..Len(content)
RECURSIVE ConcatFrom(_, _, _)
ConcatFrom(content, i, st) ==
    IF i > Len(content) THEN st.buf
    ELSE ConcatFrom(content, i + 1,
                    IF IsTextItem(content[i])
                    THEN [buf |-> (IF st.first = 0 THEN st.buf \o "\n" ELSE st.buf)
                                     \o content[i].text,
                          first |-> 0]
                    ELSE st)

\* lines 602-664: *result_out for a result the request returned
CollapseContent(res) ==
    IF res.content_kind # "array" THEN ResultNull
    ELSE IF TotalLenFrom(res.content, 1, 0) = 0 THEN PrintUnformatted(res)
    ELSE ResultText(ConcatFrom(res.content, 1, [buf |-> "", first |-> 1]))

ac_mcp_call_tool ==
    /\ tool_call.stage = "called"
    /\ tool_call' =
          IF ~tool_call.connected
          THEN [tool_call EXCEPT !.stage = "returned", !.ret = AGENTC_ERR_NOT_CONNECTED,
                                 !.out = ErrorOutput]
          ELSE IF tool_call.rpc_err # AGENTC_OK
          THEN [tool_call EXCEPT !.stage = "returned", !.ret = tool_call.rpc_err,
                                 !.out = ErrorOutput]
          ELSE [tool_call EXCEPT !.stage = "returned", !.ret = AGENTC_OK,
                                 !.out = CollapseContent(tool_call.result)]
    /\ UNCHANGED OutsideCallTool

NextCallTool == ac_mcp_call_tool

SpecCallTool == InitCallTool /\ [][NextCallTool]_vars

(***************************************************************************)
(* Properties of ac_mcp_call_tool.                                         *)
(***************************************************************************)

\* the texts of the text-typed items of a content array, in array order
TextsOf(content) ==
    LET RECURSIVE Pick(_)
        Pick(i) == IF i > Len(content) THEN <<>>
                   ELSE IF content[i].type = "text" /\ content[i].text # NULL
                   THEN <<content[i].text>> \o Pick(i + 1)
                   ELSE Pick(i + 1)
    IN  Pick(1)

\* texts joined with a newline between neighbours
JoinedWithNewline(texts) ==
    LET RECURSIVE Join(_)
        Join(n) == IF n = 1 THEN texts[1] ELSE Join(n - 1) \o "\n" \o texts[n]
    IN  IF texts = <<>> THEN "" ELSE Join(Len(texts))

CallSucceeded == tool_call.stage = "returned" /\ tool_call.ret = AGENTC_OK

\* C23 as stated: for every successful tools/call the string returned is the
\* object {"result": T}, T the text of all text-typed content items joined with
\* a newline in array order, whenever at least one text item is present;
\* whenever no text item is present the raw result object is returned.
C23_Original ==
    CallSucceeded =>
        IF TextsOf(tool_call.result.content) # <<>>
        THEN tool_call.out = ResultText(JoinedWithNewline(TextsOf(tool_call.result.content)))
        ELSE tool_call.out = PrintUnformatted(tool_call.result)

\* C23 amended: for every successful tools/call whose result has a content
\* array, the string returned is the object {"result": T}, T the text of all
\* text-typed content items joined with a newline in array order, whenever at
\* least one text item is present, and the raw result object whenever none is;
\* when the result has no content array the string returned is
\* {"result":null}.
C23_ContentCollapsed ==
    CallSucceeded =>
        IF tool_call.result.content_kind # "array"
        THEN tool_call.out = ResultNull
        ELSE IF TextsOf(tool_call.result.content) # <<>>
        THEN tool_call.out = ResultText(JoinedWithNewline(TextsOf(tool_call.result.content)))
        ELSE tool_call.out = PrintUnformatted(tool_call.result)

\* a text, an image and a text, joined across the image
C23_Witness ==
    /\ CallSucceeded
    /\ Len(tool_call.result.content) = 3
    /\ tool_call.result.content[1] = [type |-> "text", text |-> "a"]
    /\ tool_call.result.content[2].type = "image"
    /\ tool_call.result.content[3] = [type |-> "text", text |-> "bc"]
    /\ tool_call.out = ResultText("a\nbc")

(***************************************************************************)
(* The SSE transport's shared state and its mutex                          *)
(* (src/libs/ac_core/src/mcp/mcp_sse.c).  Two threads: "reader" runs       *)
(* sse_thread_func and, inside it, sse_on_event; "requester" runs          *)
(* sse_connect, sse_request and sse_disconnect.  Every pthread_mutex_lock  *)
(* and pthread_mutex_unlock is a step of its own, and each read or write   *)
(* of endpoint, connected, sse_error and the response queue is logged with *)
(* whether the thread owns the mutex at that moment.  endpoint = 0 is      *)
(* NULL; endpoint = n is the string of the n-th endpoint event, the        *)
(* earlier ones freed.                                                     *)
(***************************************************************************)
SseThreads == {"reader", "requester"}

SharedFields == {"endpoint", "connected", "sse_error", "responses"}

OutsideSseSync ==
    <<agent_vars, session_vars, mcp_vars, pool_vars,
      tool_registry, register_ret, register_tool,
      s_providers, s_providers_initialized, provider_call, s_arena, arena_log,
      tool_call, late_vars>>

\* the transport as mcp_sse_create leaves it (calloc)
InitSseSync ==
    /\ AgentUnused
    /\ SessionUnused
    /\ McpUnused
    /\ PoolUnused
    /\ LateUnused
    /\ RegistryUnused
    /\ ProvidersUnused
    /\ ArenaUnused
    /\ CallToolUnused
    /\ sse_sync = [requester |-> "idle", reader |-> "off", mutex |-> "none",
                   sse_running |-> 0, sse_connected |-> 0, connected |-> 0,
                   endpoint |-> 0, url_endpoint |-> 0, freed_read |-> FALSE,
                   response_count |-> 0, events |-> 0, requests |-> 0]
    /\ sse_accesses = {}

\* thread by reads or writes a field now
Access(by, field, op) ==
    [by |-> by, field |-> field, op |-> op, held |-> sse_sync.mutex = by]

Logged(accesses) == sse_accesses' = sse_accesses \cup accesses

RequesterStarts ==
    /\ sse_sync.requester = "idle"
    /\ sse_sync.requests < MaxRequests

\* sse_connect, lines 333-349: the mutex is initialised and the thread started
sse_connect ==
    /\ RequesterStarts
    /\ sse_sync.sse_running = 0
    /\ sse_sync' = [sse_sync EXCEPT !.requests = @ + 1,
                                    !.mutex = "none",
                                    !.sse_running = 1,
                                    !.sse_connected = 0,
                                    !.reader = "stream",
                                    !.requester = "connect_poll"]
    /\ UNCHANGED sse_accesses
    /\ UNCHANGED OutsideSseSync

\* sse_connect, lines 351-378: the polling loop has ended, on sse_connected or on
\* the timeout
sse_connect_polled ==
    /\ sse_sync.requester = "connect_poll"
    /\ IF sse_sync.sse_connected = 0
       THEN /\ sse_sync' = [sse_sync EXCEPT !.sse_running = 0, !.requester = "connect_join"]
            /\ UNCHANGED sse_accesses
       ELSE IF sse_sync.sse_connected < 0
       THEN /\ sse_sync' = [sse_sync EXCEPT !.sse_running = 0, !.requester = "connect_join"]
            /\ Logged({Access("requester", "sse_error", "read")})
       ELSE /\ sse_sync' = [sse_sync EXCEPT !.connected = 1, !.requester = "idle"]
            /\ Logged({Access("requester", "connected", "write"),
                       Access("requester", "endpoint", "read")})
    /\ UNCHANGED OutsideSseSync

\* pthread_join(sse->sse_thread) returns, in sse_connect or in sse_disconnect
pthread_join_returns ==
    /\ sse_sync.requester \in {"connect_join", "disconnect_join"}
    /\ sse_sync.reader = "exited"
    /\ sse_sync' = [sse_sync EXCEPT
           !.reader = "off",
           !.requester = IF @ = "connect_join" THEN "idle" ELSE "disconnect_lock"]
    /\ UNCHANGED sse_accesses
    /\ UNCHANGED OutsideSseSync

\* sse_request, lines 389-392: the test of t->connected and sse->endpoint
sse_request ==
    /\ RequesterStarts
    /\ sse_sync' = [sse_sync EXCEPT
           !.requests = @ + 1,
           !.url_endpoint = sse_sync.endpoint,
           !.requester = IF sse_sync.connected = 0 \/ sse_sync.endpoint = 0
                         THEN "idle" ELSE "request_url"]
    /\ Logged({Access("requester", "connected", "read"),
               Access("requester", "endpoint", "read")})
    /\ UNCHANGED OutsideSseSync

\* sse_request, lines 394-435: the URL is built from sse->endpoint and the POST
\* made; the string tested at line 389 is freed memory if an endpoint event
\* replaced it meanwhile
sse_request_url ==
    /\ sse_sync.requester = "request_url"
    /\ sse_sync' = [sse_sync EXCEPT
           !.freed_read = @ \/ sse_sync.endpoint # sse_sync.url_endpoint,
           !.requester = "request_poll"]
    /\ Logged({Access("requester", "endpoint", "read")})
    /\ UNCHANGED OutsideSseSync

\* sse_request, line 470: pthread_mutex_lock
sse_request_lock ==
    /\ sse_sync.requester = "request_poll"
    /\ sse_sync.mutex = "none"
    /\ sse_sync' = [sse_sync EXCEPT !.mutex = "requester", !.requester = "request_locked"]
    /\ UNCHANGED sse_accesses
    /\ UNCHANGED OutsideSseSync

\* sse_request, lines 471-499: the queue is scanned; a response found is taken
\* out, otherwise the loop sleeps and polls again or gives up
sse_request_scan ==
    /\ sse_sync.requester = "request_locked"
    /\ \E found \in BOOLEAN, timed_out \in BOOLEAN :
          /\ found => sse_sync.response_count > 0
          /\ sse_sync' = [sse_sync EXCEPT
                 !.mutex = "none",
                 !.response_count = IF found THEN @ - 1 ELSE @,
                 !.requester = IF found \/ timed_out THEN "idle" ELSE "request_poll"]
          /\ Logged({Access("requester", "responses", "read")}
                        \cup (IF found THEN {Access("requester", "responses", "write")}
                              ELSE {}))
    /\ UNCHANGED OutsideSseSync

\* sse_disconnect, lines 506-509
sse_disconnect ==
    /\ RequesterStarts
    /\ sse_sync.connected = 1
    /\ sse_sync' = [sse_sync EXCEPT
           !.requests = @ + 1,
           !.sse_running = 0,
           !.requester = IF sse_sync.sse_running # 0 THEN "disconnect_join"
                         ELSE "disconnect_lock"]
    /\ UNCHANGED sse_accesses
    /\ UNCHANGED OutsideSseSync

\* sse_disconnect, line 512: pthread_mutex_lock
sse_disconnect_lock ==
    /\ sse_sync.requester = "disconnect_lock"
    /\ sse_sync.mutex = "none"
    /\ sse_sync' = [sse_sync EXCEPT !.mutex = "requester", !.requester = "disconnect_locked"]
    /\ UNCHANGED sse_accesses
    /\ UNCHANGED OutsideSseSync

\* sse_disconnect, lines 513-521: the queue is emptied, the mutex unlocked and
\* destroyed
sse_disconnect_cleanup ==
    /\ sse_sync.requester = "disconnect_locked"
    /\ sse_sync' = [sse_sync EXCEPT !.response_count = 0,
                                    !.mutex = "none",
                                    !.requester = "disconnect_unlocked"]
    /\ Logged({Access("requester", "responses", "read"),
               Access("requester", "responses", "write")})
    /\ UNCHANGED OutsideSseSync

\* sse_disconnect, line 523
sse_disconnect_finish ==
    /\ sse_sync.requester = "disconnect_unlocked"
    /\ sse_sync' = [sse_sync EXCEPT !.connected = 0, !.requester = "idle"]
    /\ Logged({Access("requester", "connected", "write")})
    /\ UNCHANGED OutsideSseSync

\* sse_on_event, lines 181 and 199: an event arrives on the stream and the reader
\* takes the mutex
sse_on_event_lock ==
    /\ sse_sync.reader = "stream"
    /\ sse_sync.events < MaxEvents
    /\ sse_sync.mutex = "none"
    /\ \E kind \in {"endpoint_locked", "message_locked"} :
          sse_sync' = [sse_sync EXCEPT !.mutex = "reader",
                                       !.reader = kind,
                                       !.events = @ + 1]
    /\ UNCHANGED sse_accesses
    /\ UNCHANGED OutsideSseSync

\* sse_on_event, lines 182-185: the endpoint string is freed and replaced
sse_on_event_endpoint ==
    /\ sse_sync.reader = "endpoint_locked"
    /\ sse_sync' = [sse_sync EXCEPT !.endpoint = sse_sync.events,
                                    !.sse_connected = 1,
                                    !.mutex = "none",
                                    !.reader = "endpoint_log"]
    /\ Logged({Access("reader", "endpoint", "read"), Access("reader", "endpoint", "write")})
    /\ UNCHANGED OutsideSseSync

\* sse_on_event, line 186: AC_LOG_INFO("SSE: endpoint = %s", sse->endpoint)
sse_on_event_endpoint_log ==
    /\ sse_sync.reader = "endpoint_log"
    /\ sse_sync' = [sse_sync EXCEPT !.reader = "stream"]
    /\ Logged({Access("reader", "endpoint", "read")})
    /\ UNCHANGED OutsideSseSync

\* sse_on_event, lines 200-206: the response is queued if there is room
sse_on_event_message ==
    /\ sse_sync.reader = "message_locked"
    /\ sse_sync' = [sse_sync EXCEPT
           !.response_count = IF @ < SSE_MAX_PENDING_RESPONSES THEN @ + 1 ELSE @,
           !.mutex = "none",
           !.reader = "stream"]
    /\ Logged({Access("reader", "responses", "read")}
                  \cup (IF sse_sync.response_count < SSE_MAX_PENDING_RESPONSES
                        THEN {Access("reader", "responses", "write")} ELSE {}))
    /\ UNCHANGED OutsideSseSync

\* sse_thread_func, lines 262-296: agentc_http_request_stream has returned; the
\* thread exits if sse_running was cleared, else records its error and reconnects
sse_thread_func ==
    /\ sse_sync.reader = "stream"
    /\ IF sse_sync.sse_running = 0
       THEN /\ sse_sync' = [sse_sync EXCEPT !.reader = "exited"]
            /\ UNCHANGED sse_accesses
       ELSE /\ sse_sync.events < MaxEvents
            /\ \E err \in {AGENTC_OK, AGENTC_ERR_HTTP} :
                  IF err # AGENTC_OK
                  THEN /\ sse_sync' = [sse_sync EXCEPT !.sse_connected = -1,
                                                       !.events = @ + 1]
                       /\ Logged({Access("reader", "sse_error", "write")})
                  ELSE /\ sse_sync' = [sse_sync EXCEPT !.events = @ + 1]
                       /\ UNCHANGED sse_accesses
    /\ UNCHANGED OutsideSseSync

NextSseSync ==
    \/ sse_connect
    \/ sse_connect_polled
    \/ pthread_join_returns
    \/ sse_request
    \/ sse_request_url
    \/ sse_request_lock
    \/ sse_request_scan
    \/ sse_disconnect
    \/ sse_disconnect_lock
    \/ sse_disconnect_cleanup
    \/ sse_disconnect_finish
    \/ sse_on_event_lock
    \/ sse_on_event_endpoint
    \/ sse_on_event_endpoint_log
    \/ sse_on_event_message
    \/ sse_thread_func

SpecSseSync == InitSseSync /\ [][NextSseSync]_vars

(***************************************************************************)
(* Properties of the SSE transport's locking.                              *)
(***************************************************************************)

QueueAndEndpointWritesHeld ==
    \A a \in sse_accesses :
        (a.field = "responses" \/ (a.field = "endpoint" /\ a.op = "write")) => a.held

\* the requesting thread never builds its URL from an endpoint string the
\* reader has freed
NoFreedEndpointRead == ~sse_sync.freed_read

(***************************************************************************)
(* One MCP client's protocol sequence: ac_mcp_connect, ac_mcp_discover_tools, *)
(* ac_mcp_call_tool and ac_mcp_disconnect called one after another, in any   *)
(* order (src/libs/ac_core/src/mcp/mcp.c).                                   *)
(***************************************************************************)
OutsideProto ==
    <<agent_vars, session_vars, mcp_vars, pool_vars,
      tool_registry, register_ret, register_tool,
      s_providers, s_providers_initialized, provider_call, s_arena, arena_log,
      tool_call, sse_sync, sse_accesses, chat_call, sse_reader, core_agent>>

NoProtoCall == [call |-> "none", ret |-> "none", found_connected |-> FALSE]

\* the client as ac_mcp_create leaves it: transport created, not connected
InitProto ==
    /\ AgentUnused
    /\ SessionUnused
    /\ McpUnused
    /\ PoolUnused
    /\ RegistryUnused
    /\ ProvidersUnused
    /\ ArenaUnused
    /\ CallToolUnused
    /\ SseSyncUnused
    /\ ChatUnused
    /\ ReaderUnused
    /\ CoreAgentUnused
    /\ mcp_proto = [stage |-> "created", connected |-> 0, request_id |-> 0,
                    sent |-> <<>>, initialized |-> FALSE, calls |-> 0,
                    last |-> NoProtoCall]

\* what the transport's connect and request can return
TransportErrs == {AGENTC_OK, AGENTC_ERR_TIMEOUT}
RpcErrs == {AGENTC_OK, AGENTC_ERR_TIMEOUT, AGENTC_ERR_PROTOCOL}

\* mcp_rpc_call(client, method): the request is built with ++request_id and sent
RpcSent(proto, method) ==
    [proto EXCEPT !.request_id = @ + 1,
                  !.sent = Append(@, [method |-> method, id |-> proto.request_id + 1])]

\* transport->ops->request(transport, notif_json, 0, &response)
NotificationSent(proto, method) ==
    [proto EXCEPT !.sent = Append(@, [method |-> method, id |-> 0])]

Called(proto, call, ret) ==
    [proto EXCEPT !.calls = @ + 1,
                  !.last = [call |-> call, ret |-> ret,
                            found_connected |-> mcp_proto.connected = 1]]

\* ac_mcp_connect with one fault: the transport is left connected when initialize fails
ac_mcp_connect_keeps_transport ==
    /\ mcp_proto.calls < MaxProtoCalls
    /\ IF mcp_proto.connected = 1
       THEN mcp_proto' = Called(mcp_proto, "connect", AGENTC_OK)
       ELSE \E connect_err \in TransportErrs, init_err \in RpcErrs :
               IF connect_err # AGENTC_OK
               THEN mcp_proto' = Called(mcp_proto, "connect", connect_err)
               ELSE LET opened == [mcp_proto EXCEPT !.connected = 1]
                        asked == RpcSent(opened, "initialize")
                    IN  IF init_err # AGENTC_OK
                        THEN mcp_proto' = Called(asked, "connect", init_err)
                        ELSE mcp_proto' =
                                Called(NotificationSent([asked EXCEPT !.initialized = TRUE],
                                                        "notifications/initialized"),
                                       "connect", AGENTC_OK)
    /\ UNCHANGED OutsideProto

\* ac_mcp_connect, lines 349-438.  connect_err is what the transport's connect
\* returns, init_err what mcp_rpc_call returns for initialize; what the request of
\* the notification returns is not looked at
ac_mcp_connect ==
    /\ mcp_proto.calls < MaxProtoCalls
    /\ IF mcp_proto.connected = 1
       THEN mcp_proto' = Called(mcp_proto, "connect", AGENTC_OK)
       ELSE \E connect_err \in TransportErrs, init_err \in RpcErrs :
               IF connect_err # AGENTC_OK
               THEN mcp_proto' = Called(mcp_proto, "connect", connect_err)
               ELSE LET opened == [mcp_proto EXCEPT !.connected = 1]
                        asked == RpcSent(opened, "initialize")
                    IN  IF init_err # AGENTC_OK
                        THEN mcp_proto' =
                                Called([asked EXCEPT !.connected = 0, !.initialized = FALSE],
                                       "connect", init_err)
                        ELSE mcp_proto' =
                                Called(NotificationSent([asked EXCEPT !.initialized = TRUE],
                                                        "notifications/initialized"),
                                       "connect", AGENTC_OK)
    /\ UNCHANGED OutsideProto

\* ac_mcp_disconnect, lines 448-455
ac_mcp_disconnect ==
    /\ mcp_proto.calls < MaxProtoCalls
    /\ IF mcp_proto.connected = 0
       THEN mcp_proto' = Called(mcp_proto, "disconnect", "void")
       ELSE mcp_proto' = Called([mcp_proto EXCEPT !.connected = 0, !.initialized = FALSE],
                                "disconnect", "void")
    /\ UNCHANGED OutsideProto

\* ac_mcp_discover_tools, lines 461-478: the connection test and the tools/list call
ac_mcp_discover_tools ==
    /\ mcp_proto.calls < MaxProtoCalls
    /\ IF mcp_proto.connected = 0
       THEN mcp_proto' = Called(mcp_proto, "discover_tools", AGENTC_ERR_NOT_CONNECTED)
       ELSE \E err \in RpcErrs :
               mcp_proto' = Called(RpcSent(mcp_proto, "tools/list"), "discover_tools", err)
    /\ UNCHANGED OutsideProto

\* ac_mcp_call_tool, lines 558-606: the connection test and the tools/call call
ac_mcp_call_tool_request ==
    /\ mcp_proto.calls < MaxProtoCalls
    /\ IF mcp_proto.connected = 0
       THEN mcp_proto' = Called(mcp_proto, "call_tool", AGENTC_ERR_NOT_CONNECTED)
       ELSE \E err \in RpcErrs :
               mcp_proto' = Called(RpcSent(mcp_proto, "tools/call"), "call_tool", err)
    /\ UNCHANGED OutsideProto

NextProto ==
    \/ ac_mcp_connect
    \/ ac_mcp_disconnect
    \/ ac_mcp_discover_tools
    \/ ac_mcp_call_tool_request

SpecProto == InitProto /\ [][NextProto]_vars

(***************************************************************************)
(* One ac_core agent and its runs: ac_agent_create, then ac_agent_run_sync *)
(* any number of times (src/libs/ac_core/src/agent.c).  The history lives  *)
(* in the agent from one run to the next.                                  *)
(***************************************************************************)
OutsideCoreAgent ==
    <<agent_vars, session_vars, mcp_vars, pool_vars,
      tool_registry, register_ret, register_tool,
      s_providers, s_providers_initialized, provider_call, s_arena, arena_log,
      tool_call, sse_sync, sse_accesses, mcp_proto, chat_call, sse_reader>>

\* what the caller passes as message, and what ac_llm_chat returns (NULL: failure)
UserInputs == {"hi", "more"}
ChatReplies == {NULL, "ok", "be brief"}

\* ac_agent_create, lines 115-193: no messages, the instructions copied
InitCoreAgent ==
    /\ AgentUnused
    /\ SessionUnused
    /\ McpUnused
    /\ PoolUnused
    /\ RegistryUnused
    /\ ProvidersUnused
    /\ ArenaUnused
    /\ CallToolUnused
    /\ SseSyncUnused
    /\ ProtoUnused
    /\ ChatUnused
    /\ ReaderUnused
    /\ \E instructions \in {NULL, "be brief"} :
          core_agent = [stage |-> "created", instructions |-> instructions,
                        messages |-> <<>>, runs |-> 0, ret |-> "none"]

\* agent_run_sync_impl with one fault: the system message is added in every run
agent_run_sync_impl_every_run(message, response) ==
    LET with_sys == IF core_agent.instructions # NULL
                    THEN Append(core_agent.messages,
                                Message("system", core_agent.instructions))
                    ELSE core_agent.messages
        with_user == Append(with_sys, Message("user", message))
    IN  IF response = NULL
        THEN [core_agent EXCEPT !.messages = with_user, !.ret = NULL]
        ELSE [core_agent EXCEPT !.messages = Append(with_user, Message("assistant", response)),
                                !.ret = response]

\* agent_run_sync_impl, lines 55-113: the agent after the run
agent_run_sync_impl(message, response) ==
    LET with_sys == IF core_agent.messages = <<>> /\ core_agent.instructions # NULL
                    THEN Append(core_agent.messages,
                                Message("system", core_agent.instructions))
                    ELSE core_agent.messages
        with_user == Append(with_sys, Message("user", message))
    IN  IF response = NULL
        THEN [core_agent EXCEPT !.messages = with_user, !.ret = NULL]
        ELSE [core_agent EXCEPT !.messages = Append(with_user, Message("assistant", response)),
                                !.ret = response]

\* ac_agent_run_sync, lines 201-208
ac_agent_run_sync ==
    /\ core_agent.runs < MaxRuns
    /\ \E message \in UserInputs, response \in ChatReplies :
          core_agent' = [agent_run_sync_impl(message, response) EXCEPT !.runs = @ + 1]
    /\ UNCHANGED OutsideCoreAgent

NextCoreAgent == ac_agent_run_sync

SpecCoreAgent == InitCoreAgent /\ [][NextCoreAgent]_vars

(***************************************************************************)
(* The Anthropic driver's chat and the HTTP pool it takes its client from  *)
(* (src/libs/ac_core/src/llm/providers/anthropic.c).  One driver, called   *)
(* again and again; the pool is seen through its active count.             *)
(***************************************************************************)
OutsideChat ==
    <<agent_vars, session_vars, mcp_vars, pool_vars,
      tool_registry, register_ret, register_tool,
      s_providers, s_providers_initialized, provider_call, s_arena, arena_log,
      tool_call, sse_sync, sse_accesses, mcp_proto, sse_reader, core_agent>>

ARC_ERR_TIMEOUT == "ARC_ERR_TIMEOUT"
ARC_ERR_NOT_INITIALIZED == "ARC_ERR_NOT_INITIALIZED"
ARC_ERR_NO_MEMORY == "ARC_ERR_NO_MEMORY"
ARC_ERR_HTTP == "ARC_ERR_HTTP"

\* what happens inside one chat call: whether cJSON_CreateObject and
\* cJSON_PrintUnformatted give something, what arc_http_request returns, whether
\* the status is 200, whether the body parses, whether it has a content array
ChatOutcomes ==
    [root : BOOLEAN, body : BOOLEAN, err : {ARC_OK, ARC_ERR_TIMEOUT},
     status_200 : BOOLEAN, parses : BOOLEAN, content : BOOLEAN]

\* anthropic_create, lines 50-82: the driver owns a client when no pool is there
InitChat ==
    /\ AgentUnused
    /\ SessionUnused
    /\ McpUnused
    /\ PoolUnused
    /\ RegistryUnused
    /\ ProvidersUnused
    /\ ArenaUnused
    /\ CallToolUnused
    /\ SseSyncUnused
    /\ ProtoUnused
    /\ ReaderUnused
    /\ CoreAgentUnused
    /\ \E pool \in BOOLEAN :
          chat_call = [stage |-> "created", owns_http |-> ~pool,
                       pool_initialized |-> pool, active_count |-> 0,
                       calls |-> 0, ret |-> "none", acquired |-> 0, released |-> 0]

\* http_pool_available, lines 33-35
http_pool_available == chat_call.pool_initialized

\* the chat call from the request's construction on, lines 116-264, for a call that
\* acquired `acquired` clients from the pool; release_on_no_root is whether the
\* return after a failed cJSON_CreateObject releases the client
ChatFromBuild(o, acquired, release_on_no_root) ==
    LET ret == IF ~o.root THEN ARC_ERR_NO_MEMORY
               ELSE IF ~o.body THEN ARC_ERR_NO_MEMORY
               ELSE IF o.err # ARC_OK THEN o.err
               ELSE IF ~o.status_200 THEN ARC_ERR_HTTP
               ELSE IF ~o.parses THEN ARC_ERR_HTTP
               ELSE IF ~o.content THEN ARC_ERR_HTTP
               ELSE ARC_OK
        released == IF ~o.root /\ ~release_on_no_root THEN 0 ELSE acquired
    IN  [chat_call EXCEPT !.ret = ret, !.acquired = acquired, !.released = released,
                          !.active_count = @ + acquired - released]

\* anthropic_chat, lines 84-264, given what the return after a failed
\* cJSON_CreateObject does.  ac_http_pool_acquire gives a client while fewer than
\* MaxClients are active, and NULL after its timeout otherwise
ChatCall(o, release_on_no_root) ==
    IF chat_call.owns_http
    THEN ChatFromBuild(o, 0, release_on_no_root)
    ELSE IF http_pool_available
    THEN IF chat_call.active_count < MaxClients
         THEN ChatFromBuild(o, 1, release_on_no_root)
         ELSE [chat_call EXCEPT !.ret = ARC_ERR_TIMEOUT, !.acquired = 0, !.released = 0]
    ELSE [chat_call EXCEPT !.ret = ARC_ERR_NOT_INITIALIZED, !.acquired = 0, !.released = 0]

\* anthropic_chat, lines 84-264: `if (!root) return ARC_ERR_NO_MEMORY;` (lines
\* 123-125) returns without a release
anthropic_chat ==
    /\ chat_call.calls < MaxChatCalls
    /\ \E o \in ChatOutcomes :
          chat_call' = [ChatCall(o, FALSE) EXCEPT !.calls = @ + 1]
    /\ UNCHANGED OutsideChat

\* ac_http_pool_shutdown while no chat call is running: the pool is gone and its
\* counts are zero
PoolShutDown ==
    /\ chat_call.pool_initialized
    /\ chat_call' = [chat_call EXCEPT !.pool_initialized = FALSE, !.active_count = 0]
    /\ UNCHANGED OutsideChat

NextChat ==
    \/ anthropic_chat
    \/ PoolShutDown

SpecChat == InitChat /\ [][NextChat]_vars

(***************************************************************************)
(* The SSE transport's reader thread from start to exit, with the thread   *)
(* that connects, sends requests and disconnects                           *)
(* (src/libs/ac_core/src/mcp/mcp_sse.c).  The stream request is in the HTTP *)
(* backend: it calls on_data for every chunk received, stops when on_data  *)
(* returns non-zero or the connection ends, and with timeout_ms = 0 has no  *)
(* deadline.                                                               *)
(***************************************************************************)
OutsideReader ==
    <<agent_vars, session_vars, mcp_vars, pool_vars,
      tool_registry, register_ret, register_tool,
      s_providers, s_providers_initialized, provider_call, s_arena, arena_log,
      tool_call, sse_sync, sse_accesses, mcp_proto, chat_call, core_agent>>

NoReaderCall == [call |-> "none", err |-> "none"]

\* what is remembered of the request that is waiting or was the latest to wait:
\* whether it was sent after a connection loss with the reader connected again,
\* whether the connection ended while it waited, and how many polls it had made
\* when its response arrived (-1: the response has not arrived while it waited)
NoWait == [after_reconnect |-> FALSE, lost |-> FALSE, arrived_at |-> -1]

\* the transport as mcp_sse_create leaves it (calloc): no thread, not connected
InitReader ==
    /\ AgentUnused
    /\ SessionUnused
    /\ McpUnused
    /\ PoolUnused
    /\ RegistryUnused
    /\ ProvidersUnused
    /\ ArenaUnused
    /\ CallToolUnused
    /\ SseSyncUnused
    /\ ProtoUnused
    /\ ChatUnused
    /\ CoreAgentUnused
    /\ sse_reader = [stage |-> "created", sse_running |-> 0, sse_connected |-> 0,
                     connected |-> 0, reader |-> "off", err |-> AGENTC_OK,
                     requester |-> "idle", elapsed |-> 0, responses |-> <<>>,
                     request_id |-> 0, ret |-> NoReaderCall, chunks |-> 0, ends |-> 0,
                     wait |-> NoWait]

\* sse_connect, lines 330-350: the thread is started
sse_connect_begin ==
    /\ sse_reader.requester = "idle"
    /\ sse_reader.connected = 0
    /\ sse_reader.reader \in {"off", "exited"}
    /\ IF sse_reader.sse_running = 1
       THEN sse_reader' = [sse_reader EXCEPT !.ret = [call |-> "connect", err |-> AGENTC_OK]]
       ELSE sse_reader' = [sse_reader EXCEPT !.sse_running = 1, !.sse_connected = 0,
                                             !.reader = "top", !.requester = "connect_wait",
                                             !.elapsed = 0]
    /\ UNCHANGED OutsideReader

\* sse_connect, lines 352-378: one turn of the wait for the endpoint, and what
\* follows the wait
sse_connect_wait ==
    /\ sse_reader.requester = "connect_wait"
    /\ IF sse_reader.sse_connected = 0 /\ sse_reader.elapsed < MaxPolls
       THEN sse_reader' = [sse_reader EXCEPT !.elapsed = @ + 1]
       ELSE IF sse_reader.sse_connected = 0
       THEN sse_reader' = [sse_reader EXCEPT
                              !.sse_running = 0, !.requester = "connect_join",
                              !.ret = [call |-> "connect", err |-> AGENTC_ERR_TIMEOUT]]
       ELSE IF sse_reader.sse_connected < 0
       THEN sse_reader' = [sse_reader EXCEPT
                              !.sse_running = 0, !.requester = "connect_join",
                              !.ret = [call |-> "connect", err |-> AGENTC_ERR_HTTP]]
       ELSE sse_reader' = [sse_reader EXCEPT
                              !.connected = 1, !.requester = "idle",
                              !.ret = [call |-> "connect", err |-> AGENTC_OK]]
    /\ UNCHANGED OutsideReader

\* sse_disconnect, lines 503-509: running is cleared and the thread is joined
sse_disconnect_begin ==
    /\ sse_reader.requester = "idle"
    /\ sse_reader.connected = 1
    /\ sse_reader.sse_running = 1
    /\ sse_reader' = [sse_reader EXCEPT !.sse_running = 0, !.requester = "disconnect_join"]
    /\ UNCHANGED OutsideReader

\* pthread_join returns when the thread has exited: sse_connect returns its error
\* (lines 363-372); sse_disconnect empties the queue and clears connected (lines
\* 511-524)
sse_join ==
    /\ sse_reader.requester \in {"connect_join", "disconnect_join"}
    /\ sse_reader.reader = "exited"
    /\ IF sse_reader.requester = "connect_join"
       THEN sse_reader' = [sse_reader EXCEPT !.requester = "idle", !.reader = "off"]
       ELSE sse_reader' = [sse_reader EXCEPT
                              !.requester = "idle", !.reader = "off", !.responses = <<>>,
                              !.connected = 0,
                              !.ret = [call |-> "disconnect", err |-> AGENTC_OK]]
    /\ UNCHANGED OutsideReader

\* sse_request for a request with an id, lines 381-465: the POST succeeds with an
\* empty body and the wait for the response begins
sse_request_post ==
    /\ sse_reader.requester = "idle"
    /\ sse_reader.connected = 1
    /\ sse_reader.request_id < MaxReaderRequests
    /\ sse_reader' = [sse_reader EXCEPT
          !.request_id = @ + 1, !.requester = "waiting", !.elapsed = 0,
          !.wait = [NoWait EXCEPT
                       !.after_reconnect = /\ sse_reader.ends > 0
                                           /\ sse_reader.reader = "stream"
                                           /\ sse_reader.sse_connected = 1]]
    /\ UNCHANGED OutsideReader

\* sse_request_wait with one fault: the reader's state is not looked at
sse_request_wait_blind ==
    /\ sse_reader.requester = "waiting"
    /\ LET id == sse_reader.request_id
           i == IF \E k \in DOMAIN sse_reader.responses : sse_reader.responses[k] = id
                THEN CHOOSE k \in DOMAIN sse_reader.responses :
                        /\ sse_reader.responses[k] = id
                        /\ \A j \in 1..(k - 1) : sse_reader.responses[j] # id
                ELSE 0
       IN  IF sse_reader.elapsed >= MaxPolls
           THEN sse_reader' = [sse_reader EXCEPT
                                  !.requester = "idle",
                                  !.ret = [call |-> "request", err |-> AGENTC_ERR_TIMEOUT]]
           ELSE IF i # 0
           THEN sse_reader' = [sse_reader EXCEPT
                                  !.requester = "idle",
                                  !.responses = RemoveAt(@, i),
                                  !.ret = [call |-> "request", err |-> AGENTC_OK]]
           ELSE sse_reader' = [sse_reader EXCEPT !.elapsed = @ + 1]
    /\ UNCHANGED OutsideReader

\* sse_request, lines 468-500: one turn of the polling loop, and the return after it
sse_request_wait ==
    /\ sse_reader.requester = "waiting"
    /\ LET id == sse_reader.request_id
           i == IF \E k \in DOMAIN sse_reader.responses : sse_reader.responses[k] = id
                THEN CHOOSE k \in DOMAIN sse_reader.responses :
                        /\ sse_reader.responses[k] = id
                        /\ \A j \in 1..(k - 1) : sse_reader.responses[j] # id
                ELSE 0
       IN  IF sse_reader.elapsed >= MaxPolls
           THEN sse_reader' = [sse_reader EXCEPT
                                  !.requester = "idle",
                                  !.ret = [call |-> "request", err |-> AGENTC_ERR_TIMEOUT]]
           ELSE IF i # 0
           THEN sse_reader' = [sse_reader EXCEPT
                                  !.requester = "idle",
                                  !.responses = RemoveAt(@, i),
                                  !.ret = [call |-> "request", err |-> AGENTC_OK]]
           ELSE IF sse_reader.sse_running = 0 \/ sse_reader.sse_connected < 0
           THEN sse_reader' = [sse_reader EXCEPT
                                  !.requester = "idle",
                                  !.ret = [call |-> "request",
                                           err |-> AGENTC_ERR_NOT_CONNECTED]]
           ELSE sse_reader' = [sse_reader EXCEPT !.elapsed = @ + 1]
    /\ UNCHANGED OutsideReader

\* sse_thread_func, line 239: `while (sse->sse_running)`, then the stream request
\* is started (lines 240-263)
sse_thread_loop ==
    /\ sse_reader.reader = "top"
    /\ sse_reader' = [sse_reader EXCEPT
                         !.reader = IF sse_reader.sse_running = 1 THEN "stream" ELSE "exited"]
    /\ UNCHANGED OutsideReader

\* a chunk arrives on the upstream connection: sse_stream_callback, lines 222-228,
\* with sse_on_event for what the chunk holds (an endpoint event, a message with an
\* id, or nothing complete); a non-zero return ends the stream request
sse_stream_chunk ==
    /\ sse_reader.reader = "stream"
    /\ sse_reader.chunks < MaxStreamChunks
    /\ \E kind \in {"endpoint", "message", "partial"}, id \in 0..MaxReaderRequests :
          LET fed == [sse_reader EXCEPT
                         !.chunks = @ + 1,
                         !.sse_connected = IF kind = "endpoint" THEN 1 ELSE @,
                         !.responses =
                             IF kind = "message" /\ Len(@) < SSE_MAX_PENDING_RESPONSES
                             THEN Append(@, id) ELSE @,
                         !.wait.arrived_at =
                             IF /\ @ = -1
                                /\ kind = "message"
                                /\ id = sse_reader.request_id
                                /\ sse_reader.requester = "waiting"
                             THEN sse_reader.elapsed ELSE @]
          IN  sse_reader' = IF sse_reader.sse_running = 1
                            THEN fed
                            ELSE [fed EXCEPT !.reader = "returned", !.err = AGENTC_ERR_HTTP]
    /\ UNCHANGED OutsideReader

\* the upstream connection ends (closed by the server, or lost): the stream request
\* returns
sse_stream_ends ==
    /\ sse_reader.reader = "stream"
    /\ sse_reader.ends < MaxStreamEnds
    /\ \E err \in {AGENTC_OK, AGENTC_ERR_HTTP, AGENTC_ERR_TIMEOUT} :
          sse_reader' = [sse_reader EXCEPT
                            !.reader = "returned", !.err = err, !.ends = @ + 1,
                            !.wait.lost = @ \/ sse_reader.requester = "waiting"]
    /\ UNCHANGED OutsideReader

\* sse_thread_func, lines 265-297: after the stream request has returned
sse_thread_after_stream ==
    /\ sse_reader.reader = "returned"
    /\ IF sse_reader.sse_running = 0
       THEN sse_reader' = [sse_reader EXCEPT !.reader = "exited"]
       ELSE sse_reader' = [sse_reader EXCEPT
                              !.sse_connected = IF sse_reader.err # AGENTC_OK THEN -1 ELSE @,
                              !.reader = "delay"]
    /\ UNCHANGED OutsideReader

\* sse_thread_func, line 295: sleep(1) returns
sse_thread_sleep ==
    /\ sse_reader.reader = "delay"
    /\ sse_reader' = [sse_reader EXCEPT !.reader = "top"]
    /\ UNCHANGED OutsideReader

NextReader ==
    \/ sse_connect_begin
    \/ sse_connect_wait
    \/ sse_disconnect_begin
    \/ sse_join
    \/ sse_request_post
    \/ sse_request_wait
    \/ sse_thread_loop
    \/ sse_stream_chunk
    \/ sse_stream_ends
    \/ sse_thread_after_stream
    \/ sse_thread_sleep

SpecReader == InitReader /\ [][NextReader]_vars

\* the two threads are scheduled: a thread that can take a step of its own takes
\* it.  What the server sends, and whether the connection ends, is up to the server.
SpecReaderFair ==
    /\ SpecReader
    /\ WF_vars(sse_connect_wait)
    /\ WF_vars(sse_join)
    /\ WF_vars(sse_request_wait)
    /\ WF_vars(sse_thread_loop)
    /\ WF_vars(sse_thread_after_stream)
    /\ WF_vars(sse_thread_sleep)

(***************************************************************************)
(* Properties of the agent run.                                            *)
(***************************************************************************)
Terminal == pc \in {"Done", "Aborted", "Error", "MaxIter"}

\* C1 as stated: for every run, whatever the hooks return and whatever the model
\* answers, the number of LLM chat calls is at least 1 and at most max_iterations.
C1_Original ==
    Terminal => (1 <= llm_calls /\ llm_calls <= agent.max_iterations)

\* C1 amended: the number of LLM chat calls of a run never exceeds max_iterations;
\* a finished run made no call at all exactly when on_start returned non-zero (the run
\* is then aborted), and made at least one call otherwise.
C1_LlmCallBounds ==
    /\ llm_calls <= agent.max_iterations
    /\ Terminal =>
          IF on_start_ret # 0
          THEN llm_calls = 0 /\ result.status = AGENTC_RUN_ABORTED
          ELSE llm_calls >= 1

\* a run that used every iteration: max_iterations >= 2 calls, then the cap
C1_Witness ==
    /\ pc = "MaxIter"
    /\ llm_calls = agent.max_iterations
    /\ llm_calls >= 2

\* every tool call of every assistant message of h is answered, before the next
\* assistant message, by a tool message carrying its id
ToolCallsAnswered(h) ==
    \A i \in DOMAIN h :
        h[i].role = "assistant" =>
            \A k \in DOMAIN h[i].tool_calls :
                \E j \in (i + 1)..Len(h) :
                    /\ h[j].role = "tool"
                    /\ h[j].tool_call_id = h[i].tool_calls[k].id
                    /\ \A m \in (i + 1)..j : h[m].role # "assistant"

\* C2: for any run that completes with status success, every assistant message in the
\* history that carries a tool call with id X is followed, before the next assistant
\* message, by a tool result message with id X.
C2_ToolResultsPaired ==
    (pc = "Done" /\ result.status = AGENTC_RUN_SUCCESS) => ToolCallsAnswered(messages)

\* a successful run in which one response requested two tool calls
C2_Witness ==
    /\ pc = "Done"
    /\ result.status = AGENTC_RUN_SUCCESS
    /\ \E i \in DOMAIN messages :
          messages[i].role = "assistant" /\ Len(messages[i].tool_calls) = 2

\* the tool call i of the response fails: its name is not registered, or its handler
\* was invoked and returned a status other than AGENTC_OK
Unregistered(call) == ~agent.tools \/ call.name \notin Range(registry)
ToolError(i) ==
    \/ Unregistered(resp.tool_calls[i])
    \/ handled[i].invoked /\ handled[i].err # AGENTC_OK

ErrorJsons ==
    {ToolNotFoundJson, InvalidArgumentsJson}
        \cup {ExecutionFailedJson(e) : e \in HandlerErrs}

\* the history after the step is the history before it followed by one tool message
\* per result, in order, each with the id of its call and the result's output
ResultsAppended ==
    /\ Len(messages') = Len(messages) + Len(resp.tool_calls)
    /\ \A i \in DOMAIN messages : messages'[i] = messages[i]
    /\ \A i \in DOMAIN resp.tool_calls :
          messages'[Len(messages) + i] =
              [role |-> "tool", content |-> results[i].output,
               tool_call_id |-> resp.tool_calls[i].id, tool_calls |-> <<>>]

\* C7 as stated: for every requested tool call whose name is not registered or whose
\* handler returns a non-OK status, the registry call returns OK with is_error set and
\* an error JSON as output, the result is appended to history as that call's tool
\* result, and the loop goes on to the next LLM call instead of returning status error.
C7_OriginalStep ==
    /\ (pc = "tool_calls" /\ \E i \in DOMAIN resp.tool_calls :
                                 Unregistered(resp.tool_calls[i]))
          => result'.status # AGENTC_RUN_ERROR
    /\ (pc = "tool_results" /\ \E i \in DOMAIN results : ToolError(i))
          => /\ \A i \in DOMAIN results :
                   ToolError(i) => results[i].is_error /\ results[i].output \in ErrorJsons
             /\ ResultsAppended
             /\ pc' = "loop_top"

C7_AmendedStep ==
    /\ (pc = "tool_calls" /\ agent.tools /\ pc' # "Aborted")
          => /\ pc' = "tool_results"
             /\ Len(results') = Len(resp.tool_calls)
             /\ \A i \in DOMAIN resp.tool_calls :
                   LET call == resp.tool_calls[i]
                       r == results'[i]
                       h == handled'[i]
                   IN  /\ r.tool_call_id = call.id
                       /\ call.name \notin Range(registry)
                             => r.is_error /\ r.output = ToolNotFoundJson /\ ~h.invoked
                       /\ (h.invoked /\ h.err # AGENTC_OK)
                             => /\ r.is_error
                                /\ r.output = IF h.output # NULL THEN h.output
                                              ELSE ExecutionFailedJson(h.err)
    /\ pc = "tool_results"
          => \/ pc' = "Aborted" /\ messages' = messages
             \/ pc' = "loop_top" /\ ResultsAppended
    /\ (pc \in {"tool_calls", "tool_results"} /\ agent.tools)
          => result'.status # AGENTC_RUN_ERROR

C8_Original ==
    content_ret # 0 =>
        /\ \/ pc = "Aborted" /\ result.status = AGENTC_RUN_ABORTED
           \/ pc = "streaming" /\ stream_ctx.aborted # 0
        /\ messages = req_messages

\* the state of the per-run state machine the run is in
RunState ==
    CASE pc = "idle" -> "Idle"
      [] pc \in {"loop_top", "streaming"} -> "Calling_LLM"
      [] pc \in {"tool_calls", "tool_results"} -> "Executing_Tools"
      [] pc = "final" -> "Returning_Text"
      [] OTHER -> pc

StatedTransitions ==
    { <<"Idle", "Calling_LLM">>,
      <<"Calling_LLM", "Returning_Text">>, <<"Returning_Text", "Done">>,
      <<"Calling_LLM", "Executing_Tools">>, <<"Executing_Tools", "Calling_LLM">>,
      <<"Calling_LLM", "Aborted">>, <<"Calling_LLM", "Error">>,
      <<"Calling_LLM", "MaxIter">> }

CodeTransitions ==
    StatedTransitions \cup
        { <<"Idle", "Aborted">>,
          <<"Executing_Tools", "Aborted">>, <<"Executing_Tools", "Error">> }

\* a terminal state reports its own status
StatusMatchesState ==
    /\ pc = "Done" => result.status = AGENTC_RUN_SUCCESS
    /\ pc = "Aborted" => result.status = AGENTC_RUN_ABORTED
    /\ pc = "Error" => result.status = AGENTC_RUN_ERROR
    /\ pc = "MaxIter" => result.status = AGENTC_RUN_MAX_ITERATIONS

MovesAlong(transitions) ==
    /\ ~Terminal
    /\ RunState' = RunState \/ <<RunState, RunState'>> \in transitions

\* C9 as stated: every run starts in Idle and moves only along Idle -> Calling_LLM,
\* Calling_LLM -> Returning_Text -> Done, Calling_LLM -> Executing_Tools -> Calling_LLM
\* and Calling_LLM -> Aborted | Error | MaxIter; the four terminal states are terminal
\* and report success, aborted, error, max_iterations respectively.
C9_Original ==
    /\ RunState = "Idle"
    /\ [][MovesAlong(StatedTransitions)]_vars
    /\ []StatusMatchesState

\* C9 amended: the run also moves Idle -> Aborted (on_start returns non-zero),
\* Executing_Tools -> Aborted (on_tool_call or on_tool_result returns non-zero) and
\* Executing_Tools -> Error (tools requested from an agent without a registry); with
\* these three transitions added the statement holds.
C9_RunStateMachine ==
    /\ RunState = "Idle"
    /\ [][MovesAlong(CodeTransitions)]_vars
    /\ []StatusMatchesState

\* a run that on_start aborted before the first LLM call
C9_Witness ==
    /\ pc = "Aborted"
    /\ on_start_ret # 0
    /\ llm_calls = 0
    /\ result.status = AGENTC_RUN_ABORTED

\* the last assistant message of h
LastAssistant(h) ==
    LET idx == {i \in DOMAIN h : h[i].role = "assistant"}
        last == CHOOSE i \in idx : \A j \in idx : j <= i
    IN  h[last]

\* C10 as stated: when a run makes max_iterations LLM calls and each of them requested
\* tools, the run returns status max_iterations and its final answer is the text of the
\* last assistant response (empty when that response carried no text).
C10_Original ==
    (pc = "MaxIter" /\ llm_calls = agent.max_iterations /\ tool_rounds = llm_calls) =>
        /\ result.status = AGENTC_RUN_MAX_ITERATIONS
        /\ IF LastAssistant(messages).content # NULL
           THEN result.final_output = LastAssistant(messages).content
           ELSE result.final_output \in {NULL, ""}


(***************************************************************************)
(* Properties of the execution of the tool calls of one response.          *)
(***************************************************************************)

\* whether the handler of a call is reached: the tool is registered and the
\* arguments are empty or parse
ReachesHandler(call) ==
    /\ agentc_tool_get(registry, call.name)
    /\ (call.arguments = "" \/ ArgumentsParse(call.arguments))

\* rs and hd answer the calls one for one, in the order of the calls
OnePerCallInOrder(calls, rs, hd) ==
    /\ Len(rs) = Len(calls)
    /\ Len(hd) = Len(calls)
    /\ \A i \in DOMAIN calls :
          /\ rs[i].tool_call_id = calls[i].id
          /\ hd[i].invoked = ReachesHandler(calls[i])

\* the step that runs agentc_tool_execute_all: a registry is configured and the
\* on_tool_call hook lets the calls through
ExecutesAll == pc = "tool_calls" /\ agent.tools /\ pc' # "Aborted"

\* C16: when one response requests several tool calls, the registry executes them
\* one after the other in the order received and produces exactly one result per
\* call, in the same order, each result carrying the id of its call.
C16_ToolCallsInOrder ==
    /\ [](pc = "tool_results" => OnePerCallInOrder(resp.tool_calls, results, handled))
    /\ [][ExecutesAll =>
            /\ pc' = "tool_results"
            /\ resp' = resp
            /\ OnePerCallInOrder(resp.tool_calls, results', handled')
            /\ tool_execs' = tool_execs + Len(resp.tool_calls)]_vars

\* two calls with different ids and different names, the first to a tool that is
\* not registered, the second reaching its handler
C16_Witness ==
    /\ pc = "tool_results"
    /\ Len(resp.tool_calls) = 2
    /\ resp.tool_calls[1].id # resp.tool_calls[2].id
    /\ ~handled[1].invoked
    /\ handled[2].invoked
    /\ results[1].tool_call_id = "call_2"
    /\ results[2].tool_call_id = "call_1"

\* the message list the caller holds once the run has returned:
\* agentc_agent_run frees its list, agentc_agent_run_with_history leaves the
\* caller's list as the loop extended it
HistoryLeftBehind == IF entry = "agentc_agent_run_with_history" THEN messages ELSE <<>>

\* C24 as stated: in the history handed to any LLM call and in the history a
\* run leaves behind, whatever the run's final status and whichever hook ended
\* it, every tool call with id X in an assistant message is followed, before the
\* next assistant message, by at least one tool result with the same id X.
C24_Original ==
    /\ llm_calls > 0 => ToolCallsAnswered(req_messages)
    /\ Terminal => ToolCallsAnswered(HistoryLeftBehind)

\* the part of C24 the code keeps: the histories handed to the LLM, and those
\* left behind by runs that end with status success or max_iterations
PairedWhereKept ==
    /\ llm_calls > 0 => ToolCallsAnswered(req_messages)
    /\ pc \in {"Done", "MaxIter"} => ToolCallsAnswered(HistoryLeftBehind)

\* the last n messages of a history
LastMessages(h, n) == SubSeq(h, Len(h) - n + 1, Len(h))

\* the history ends with an assistant message that carries tool calls and one
\* tool message per call, in the order of the calls and with their ids
EndsWithAnsweredRound(h) ==
    \E n \in 0..MaxCalls :
        /\ Len(h) > n
        /\ h[Len(h) - n].role = "assistant"
        /\ Len(h[Len(h) - n].tool_calls) = n
        /\ tool_execs = n
        /\ \A k \in 1..n :
              /\ LastMessages(h, n)[k].role = "tool"
              /\ LastMessages(h, n)[k].tool_call_id = h[Len(h) - n].tool_calls[k].id

MalformedArguments(call) == call.arguments # "" /\ ~ArgumentsParse(call.arguments)

\* C26 as stated: for a tool call to a registered tool whose arguments string is
\* not valid JSON, the tool's handler is invoked exactly once with an empty
\* object, and the tool result (output and is_error) is whatever that handler
\* returns.
C26_Original ==
    pc = "tool_results" =>
        \A i \in DOMAIN resp.tool_calls :
            (agentc_tool_get(registry, resp.tool_calls[i].name)
                /\ MalformedArguments(resp.tool_calls[i]))
            => /\ handled[i].invoked
               /\ results[i].is_error = (handled[i].err # AGENTC_OK)
               /\ handled[i].output # NULL => results[i].output = handled[i].output

\* what agentc_tool_execute does with such a call: the handler is not invoked
\* and the result is the error object "invalid arguments JSON"
MalformedArgumentsRejected ==
    pc = "tool_results" =>
        \A i \in DOMAIN resp.tool_calls :
            (agentc_tool_get(registry, resp.tool_calls[i].name)
                /\ MalformedArguments(resp.tool_calls[i]))
            => /\ ~handled[i].invoked
               /\ results[i].is_error
               /\ results[i].output = InvalidArgumentsJson

\* C27 as stated: the loop handles a response the same way whether it was
\* obtained by blocking chat or by streaming: with stream enabled, a response in
\* which the model requests tools is followed by execution of those tools and a
\* further LLM call, as with stream disabled.  A response that requests tools
\* is therefore never taken for the final response of the run.
C27_Original ==
    /\ (pc = "final" /\ ~agent.stream) => ~RequestsTools(resp)
    /\ (pc = "final" /\ agent.stream) => streamed_calls = <<>>

\* what holds of the streaming branch: the response the loop sees never
\* requests tools, whatever the stream carried
StreamedResponseNeverRequestsTools ==
    (agent.stream /\ resp # NoResponse) => ~RequestsTools(resp) /\ tool_execs = 0

\* threads blocked in the pthread_cond_timedwait of ac_http_pool_acquire
BlockedAcquirers == {t \in Threads : th[t].pc = "acq_wait"}

\* threads a signal took out of that wait: about to retake the mutex, or back at
\* the head of the wait loop
SignalledAcquirers ==
    {t \in Threads : th[t].woke = "signal" /\ th[t].pc \in {"acq_woken", "acq_loop"}}

PoolInService == s_pool.initialized = 1 /\ s_pool.shutting_down = 0

\* thread t's release marks an entry idle while an acquirer is blocked
ReleasesToBlocked(t) ==
    /\ ReleaseCritical(t)
    /\ s_pool' # s_pool
    /\ PoolInService
    /\ BlockedAcquirers # {}

\* thread u, signalled and back at the head of the wait loop with an entry
\* idle, takes its next step
SignalledFindsIdle(u) ==
    /\ th[u].pc = "acq_loop"
    /\ th[u].woke = "signal"
    /\ s_pool.shutting_down = 0
    /\ IdleEntries # {}
    /\ th'[u] # th[u]

\* C28: no wake-up is lost.  While the pool is in service, a release that finds
\* an acquirer blocked wakes a blocked acquirer; the woken acquirer goes back to
\* the head of its wait loop and, if the entry is still idle there (no other
\* thread took it), obtains it, counted as a pool hit and taken off the waiting
\* count; and no acquirer is blocked while an entry is idle unless a signalled
\* acquirer is on its way to it.
C28_NoLostWakeup ==
    /\ []((PoolInService /\ IdleEntries # {} /\ BlockedAcquirers # {})
             => SignalledAcquirers # {})
    /\ [][/\ \A t \in Threads :
                ReleasesToBlocked(t) =>
                    \E u \in BlockedAcquirers :
                        th'[u].pc = "acq_woken" /\ th'[u].woke = "signal"
          /\ \A u \in Threads :
                (th[u].pc = "acq_woken" /\ th[u].woke = "signal" /\ th'[u] # th[u])
                    => th'[u].pc = "acq_loop" /\ th'[u].woke = "signal"
          /\ \A u \in Threads :
                SignalledFindsIdle(u) =>
                    LET i == find_idle_entry(s_pool.entries) IN
                    /\ th'[u].pc = "idle"
                    /\ th'[u].holds = s_pool.entries[i].client
                    /\ s_pool'.entries[i].in_use = 1
                    /\ s_pool'.pool_hits = s_pool.pool_hits + 1
                    /\ s_pool'.timeouts = s_pool.timeouts
                    /\ s_pool'.waiting_count = USub(s_pool.waiting_count, 1)]_vars

\* an acquirer that a release woke is back at the head of its wait loop, the
\* released entry still idle
C28_Witness ==
    /\ PoolInService
    /\ pool_faults = NoFaults
    /\ \E u \in Threads :
          /\ th[u].pc = "acq_loop"
          /\ th[u].woke = "signal"
          /\ mutex.owner = u
    /\ IdleEntries # {}
    /\ s_pool.total_count = s_pool.config.max_connections

\* the clients thread t's step through the head of acquire destroys: those of
\* the entries cleanup_idle_connections removes
Scavenged(t) ==
    IF AcquireCritical(t)
    THEN {c \in ClientAddrs : clients[c] = "live" /\ clients'[c] = "destroyed"}
    ELSE {}

\* entry e is not in use and has been idle for more than idle_timeout_ms
IdleTooLong(e) ==
    e.in_use = 0 /\ get_current_time_ms - e.last_used_ms > s_pool.config.idle_timeout_ms

C29_OriginalStep ==
    \A t \in Threads :
        /\ \A c \in Scavenged(t) :
              \A i \in EntryIdx(s_pool.entries) :
                  s_pool.entries[i].client = c => IdleTooLong(s_pool.entries[i])
        /\ (AcquireCritical(t) /\ Len(s_pool.entries) >= 1) => Len(s_pool'.entries) >= 1

\* C29 as stated: idle scavenging destroys only entries that are not in use and
\* whose idle time (now minus last_used_ms) exceeds idle_timeout_ms, for every
\* value of the clock, and it never reduces the number of pool entries below one.
C29_Original == [][C29_OriginalStep]_vars

\* the same with the clock at or past idle_timeout_ms, where now - idle_timeout_ms
\* does not wrap
ScavengingPastTimeoutStep ==
    get_current_time_ms >= s_pool.config.idle_timeout_ms => C29_OriginalStep

ScavengingPastTimeout == [][ScavengingPastTimeoutStep]_vars

\* C36 as stated: every HTTP client created by the pool is destroyed at most
\* once and is never used or destroyed again after that, over any interleaving
\* of acquire, release and shutdown, in particular when a client is still
\* checked out at the end of shutdown's wait and is released afterwards.  A
\* client is in use while the caller that acquired it has not released it.
C36_Original ==
    /\ ~pool_faults.double_destroy
    /\ \A t \in Threads :
          (th[t].pc = "idle" /\ th[t].holds # 0) => clients[th[t].holds] # "destroyed"

\* the first half alone: no arc_http_client_destroy on a client already destroyed
NoDoubleDestroy == ~pool_faults.double_destroy

\* C37 as stated: under any interleaving of shutdown with acquire, release and
\* get_stats calls on other threads, no thread locks, waits on or signals the
\* pool mutex or condition variable after shutdown has destroyed them.
C37_Original == ~pool_faults.destroyed_sync_used

\* thread t's release finds that the client it was given is not checked out:
\* the pool has no entry of it, or the entry is not in use
ReleasesNotCheckedOut(t) ==
    /\ ReleaseCritical(t)
    /\ LET i == find_entry_by_client(s_pool.entries, th[t].holds)
       IN  i = 0 \/ s_pool.entries[i].in_use = 0

ArrivesForWaiting ==
    /\ mcp_pc = "waiting"
    /\ mcp_elapsed < MaxPolls
    /\ sse_events' # sse_events
    /\ \/ mcp_client.request_id \in sse_dropped' \ sse_dropped
       \/ /\ Len(sse'.responses) = Len(sse.responses) + 1
          /\ sse'.responses[Len(sse'.responses)].id = mcp_client.request_id

\* C39 as stated: on the SSE transport, responses that are queued but never
\* collected (their caller timed out, or they carry no id and are stored under
\* id 0) do not stop later requests from being served: after any number of
\* them, the response of a new request that arrives within the request's
\* timeout is there for the request to collect.
C39_Original == [][ArrivesForWaiting => mcp_client.request_id \in QueuedIds']_vars

\* the messages the call made in this step has sent
SentByCall == SubSeq(mcp_proto'.sent, Len(mcp_proto.sent) + 1, Len(mcp_proto'.sent))

ConnectReturns(ok) ==
    /\ mcp_proto'.calls # mcp_proto.calls
    /\ mcp_proto'.last.call = "connect"
    /\ (mcp_proto'.last.ret = AGENTC_OK) = ok

InitializeThenNotification ==
    /\ Len(SentByCall) = 2
    /\ SentByCall[1].method = "initialize" /\ SentByCall[1].id # 0
    /\ SentByCall[2].method = "notifications/initialized" /\ SentByCall[2].id = 0

\* no tools/list or tools/call is sent unless an initialize has succeeded on the
\* current connection
ToolsOnlyAfterInitialize ==
    (\E i \in DOMAIN SentByCall : SentByCall[i].method \in {"tools/list", "tools/call"})
        => mcp_proto.connected = 1 /\ mcp_proto.initialized

\* a connect that fails leaves the client not connected
FailedConnectNotConnected ==
    ConnectReturns(FALSE) => mcp_proto'.connected = 0 /\ ~mcp_proto'.initialized

\* C34 as stated: for any sequence of connect, discover_tools, call_tool and
\* disconnect calls, each successful connect sends exactly one initialize request
\* followed by exactly one notifications/initialized notification whose outcome
\* is ignored; no tools/list or tools/call is sent unless an initialize has
\* succeeded on the current connection; a failed initialize leaves the client
\* not connected.
C34_Original ==
    /\ [][ConnectReturns(TRUE) => InitializeThenNotification]_vars
    /\ [][ToolsOnlyAfterInitialize]_vars
    /\ [][FailedConnectNotConnected]_vars

\* C34, amended: a connect on a client that is not connected, when it succeeds,
\* sends exactly one initialize request followed by exactly one
\* notifications/initialized notification whose outcome is ignored; a connect on
\* a client that is already connected returns success and sends nothing; no
\* tools/list or tools/call is sent unless an initialize has succeeded on the
\* current connection; a failed initialize leaves the client not connected.
C34_ConnectSequence ==
    /\ [][ConnectReturns(TRUE) =>
             IF mcp_proto.connected = 1
             THEN mcp_proto'.sent = mcp_proto.sent /\ mcp_proto.initialized
             ELSE InitializeThenNotification]_vars
    /\ [][ToolsOnlyAfterInitialize]_vars
    /\ [][FailedConnectNotConnected]_vars
    /\ [](mcp_proto.connected = 1 <=> mcp_proto.initialized)

\* an initialize has failed, a later connect has succeeded, a tools/call has been
\* sent on that connection, and a second connect has then returned success
\* without sending anything
C34_Witness ==
    /\ mcp_proto.last = [call |-> "connect", ret |-> AGENTC_OK, found_connected |-> TRUE]
    /\ Len(mcp_proto.sent) = 4
    /\ mcp_proto.sent[1].method = "initialize"
    /\ mcp_proto.sent[2].method = "initialize"
    /\ mcp_proto.sent[3].method = "notifications/initialized"
    /\ mcp_proto.sent[4].method = "tools/call"

\* positions of the system messages with the agent's instructions as their text
InstructionMessages ==
    {i \in DOMAIN core_agent.messages :
        /\ core_agent.messages[i].role = "system"
        /\ core_agent.messages[i].content = core_agent.instructions}

\* the history before the step is the beginning of the history after it
HistoryExtended ==
    /\ Len(core_agent'.messages) >= Len(core_agent.messages)
    /\ SubSeq(core_agent'.messages, 1, Len(core_agent.messages)) = core_agent.messages

ChatReturns == chat_call'.calls = chat_call.calls + 1

\* C38 as stated: every call of the Anthropic driver's chat that acquires a client
\* from the pool releases it exactly once before returning, on every return path
\* (success and each failure), so that after any number of chat calls the pool's
\* active count is back to what it was before them.
C38_Original ==
    [][ChatReturns =>
          /\ chat_call'.released = chat_call'.acquired
          /\ chat_call'.active_count = chat_call.active_count]_vars

\* the requesting thread is in the pthread_join of sse_connect or sse_disconnect
Joining == sse_reader.requester \in {"connect_join", "disconnect_join"}

ReaderGone == sse_reader.reader \in {"off", "exited"}

\* C31 as stated: once running is cleared (by disconnect, or by connect after a
\* failed wait for the endpoint), the reader thread eventually exits and the
\* pthread_join waiting for it returns, whether the upstream connection is
\* delivering data, is open but silent, or the thread is in its reconnect delay.
C31_Original ==
    /\ (sse_reader.sse_running = 0 /\ ~ReaderGone) ~> ReaderGone
    /\ Joining ~> sse_reader.requester = "idle"

\* the part of C31 that holds: running cleared while the thread is in its
\* reconnect delay, at the top of its loop or past the stream request
ReaderOutsideStreamExits ==
    (sse_reader.sse_running = 0 /\ sse_reader.reader \in {"top", "returned", "delay"})
        ~> ReaderGone

\* sse_request returns in this step
RequestReturns == sse_reader.requester = "waiting" /\ sse_reader'.requester = "idle"

\* the response of the waiting request is not in the queue and has not arrived
NoResponseForWaiting ==
    /\ sse_reader.wait.arrived_at = -1
    /\ \A k \in DOMAIN sse_reader.responses : sse_reader.responses[k] # sse_reader.request_id

\* the reader is in its error state: the stream request returned an error and no
\* endpoint event has come since
ReaderInError == sse_reader.sse_connected < 0

\* C32 as stated: if the reader thread loses its upstream connection while a
\* caller is waiting with timeout_ms = T for a response that never arrives, the
\* caller's request returns timeout once T has elapsed.
C32_Original ==
    [][(RequestReturns /\ sse_reader.wait.lost /\ NoResponseForWaiting)
          => /\ sse_reader'.ret.err = AGENTC_ERR_TIMEOUT
             /\ sse_reader.elapsed >= MaxPolls]_vars

\* C32, amended: if the reader thread loses its upstream connection while a
\* caller is waiting with timeout_ms = T for a response that never arrives, the
\* caller's request returns without a response: not-connected at its first poll
\* before T that finds the reader in its error state, and timeout once T has
\* elapsed otherwise.
C32_LossWhileWaiting ==
    /\ [][(RequestReturns /\ sse_reader.wait.lost /\ NoResponseForWaiting)
             => /\ sse_reader'.ret.err \in {AGENTC_ERR_TIMEOUT, AGENTC_ERR_NOT_CONNECTED}
                /\ sse_reader'.ret.err = AGENTC_ERR_TIMEOUT
                      <=> sse_reader.elapsed >= MaxPolls
                /\ sse_reader'.ret.err = AGENTC_ERR_NOT_CONNECTED
                      <=> (sse_reader.elapsed < MaxPolls /\ ReaderInError)]_vars
    /\ [][(/\ sse_reader.requester = "waiting"
           /\ sse_reader.elapsed < MaxPolls
           /\ NoResponseForWaiting
           /\ ReaderInError
           /\ (sse_reader'.elapsed # sse_reader.elapsed \/ RequestReturns))
             => /\ RequestReturns
                /\ sse_reader'.ret.err = AGENTC_ERR_NOT_CONNECTED]_vars

\* the connection ended with an error while the caller waited for a response that
\* did not come, and the caller's request has returned not-connected before its
\* timeout
C32_Witness ==
    /\ sse_reader.requester = "idle"
    /\ sse_reader.ret = [call |-> "request", err |-> AGENTC_ERR_NOT_CONNECTED]
    /\ sse_reader.wait.lost
    /\ sse_reader.wait.arrived_at = -1
    /\ sse_reader.elapsed < MaxPolls

\* C33 as stated: after the reader thread loses its connection while still
\* running, it reconnects after the 1 s delay, and a request issued after the
\* reader has reconnected, whose response is delivered within its timeout,
\* returns that response successfully.
C33_Original ==
    [][(RequestReturns /\ sse_reader.wait.after_reconnect
                       /\ sse_reader.wait.arrived_at >= 0)
          => sse_reader'.ret.err = AGENTC_OK]_vars

\* what holds of C33: a request sent after the reader has reconnected, whose
\* response is queued before the request's last poll, returns that response
ServedAfterReconnect ==
    [][(RequestReturns /\ sse_reader.wait.after_reconnect
                       /\ sse_reader.wait.arrived_at >= 0
                       /\ sse_reader.wait.arrived_at < MaxPolls)
          => sse_reader'.ret.err = AGENTC_OK]_vars

\* a thread that has lost its connection while running starts a new stream
\* request after its delay
ReconnectsAfterDelay ==
    (sse_reader.reader = "delay" /\ sse_reader.sse_running = 1)
        ~> (sse_reader.reader = "stream" \/ sse_reader.sse_running = 0)

=============================================================================
